---- MODULE Spec2Model ----
(***************************************************************************)
(* A model of the tabby interpreter: the environment stack (stack.rs), the  *)
(* Pratt parser (parser.rs) and the tree-walking evaluator (eval.rs) with   *)
(* the value model of object.rs.                                            *)
(***************************************************************************)
EXTENDS Integers, Sequences, FiniteSets, TLC

VARIABLES stack, heap, build, last, nevals, env, input, program, pc, lexer, tokens

vars == <<stack, heap, build, last, nevals, env, input, program, pc, lexer, tokens>>

(***************************************************************************)
(* Bounds                                                                   *)
(***************************************************************************)
MaxDepth == 3
MaxFrames == 2
MaxBind == 2
MaxEvals == 2
MaxTokens == 3
\* operations of one run of the stack specification (counted in nevals)
MaxOps == 5
\* lines the REPL reads in one run
MaxLines == 3
\* length of the enumerated lexer inputs
MaxChars == 3
\* calls of next_token made after the input is exhausted
MaxCalls == 2

(***************************************************************************)
(* Generic helpers for maps (HashMap) and options                           *)
(***************************************************************************)
None == [some |-> FALSE]

Some(v) == [some |-> TRUE, v |-> v]

EmptyMap == [k \in {} |-> None]

MapPut(m, k, v) == [x \in (DOMAIN m) \cup {k} |-> IF x = k THEN v ELSE m[x]]

MapRemove(m, k) == [x \in (DOMAIN m) \ {k} |-> m[x]]

MapGet(m, k) == IF k \in DOMAIN m THEN Some(m[k]) ELSE None

Last(s) == s[Len(s)]

Front(s) == SubSeq(s, 1, Len(s) - 1)

SetLast(s, v) == [s EXCEPT ![Len(s)] = v]

(***************************************************************************)
(* Values (object.rs).  Immutable payloads are kept structurally; a         *)
(* Collection is a reference to a heap cell because eval_access_assign      *)
(* mutates the shared object in place.                                      *)
(***************************************************************************)
Integer(val) == [type |-> "Integer", val |-> val]

Bool(b) == [type |-> "Bool", b |-> b]

Str(s) == [type |-> "Str", str |-> s]

Unit == [type |-> "Unit"]

Builtin(name) == [type |-> "Builtin", builtin |-> name]

Function(parameters, body, capture) ==
    [type |-> "Function", parameters |-> parameters, body |-> body, capture |-> capture]

CollectionRef(addr) == [type |-> "Collection", addr |-> addr]

Vector(elements) == [type |-> "Vector", elements |-> elements]

BuiltinNames == {"len", "print", "yeet", "exit"}

builtins == [k \in BuiltinNames |-> Builtin(k)]

(***************************************************************************)
(* Environment stack (stack.rs)                                             *)
(***************************************************************************)
Frame == [scope |-> <<{}>>, vars |-> [k \in BuiltinNames |-> <<<<builtins[k], 0>>>>]]

StackNew == <<Frame>>

\* a frame that starts from the caller's bindings
push_frame_inherit(s) == Append(s, [scope |-> <<{}>>, vars |-> Last(s).vars])

push_frame(s) == Append(s, Frame)

pop_frame(s) == IF Len(s) = 0 THEN s ELSE Front(s)

scope(s) == Last(s).scope

add(s, ident, val) ==
    LET f == Last(s)
        sc == IF Len(f.scope) > 0
              THEN SetLast(f.scope, Last(f.scope) \cup {ident})
              ELSE <<{ident}>>
        cur_id == Len(sc)
        old == IF ident \in DOMAIN f.vars THEN f.vars[ident] ELSE <<>>
    IN SetLast(s, [scope |-> sc, vars |-> MapPut(f.vars, ident, Append(old, <<val, cur_id>>))])

push(s) == SetLast(s, [Last(s) EXCEPT !.scope = Append(@, {})])

RECURSIVE Trim(_, _)
\* the `while let Some((val, id)) = scope.pop()` loops of pop and assign:
\* entries are dropped from the top until one has an id below the limit
Trim(bindings, limit) ==
    IF Len(bindings) = 0 THEN bindings
    ELSE IF Last(bindings)[2] < limit THEN bindings
    ELSE Trim(Front(bindings), limit)

pop(s) ==
    LET f == Last(s)
        prev_id == Len(f.scope) - 1
    IN IF Len(f.scope) = 0 THEN s
       ELSE LET out == Last(f.scope)
                hit == out \cap DOMAIN f.vars
                gone == {i \in hit : Len(Trim(f.vars[i], prev_id)) = 0}
            IN SetLast(s, [scope |-> Front(f.scope),
                           vars |-> [k \in (DOMAIN f.vars) \ gone |->
                                        IF k \in hit THEN Trim(f.vars[k], prev_id)
                                        ELSE f.vars[k]]])

get(s, ident) ==
    LET v == Last(s).vars
    IN IF ident \in DOMAIN v /\ Len(v[ident]) > 0 THEN Some(Last(v[ident])[1]) ELSE None

\* assign recording the depth the way add does
assign_add_depth(s, ident, val) ==
    LET f == Last(s)
        cur_id == Len(f.scope)
        sc == SetLast(f.scope, Last(f.scope) \cup {ident})
        old == IF ident \in DOMAIN f.vars THEN f.vars[ident] ELSE <<>>
    IN SetLast(s, [scope |-> sc,
                   vars |-> MapPut(f.vars, ident, Append(Trim(old, cur_id), <<val, cur_id>>))])

assign(s, ident, val) ==
    LET f == Last(s)
        cur_id == Len(f.scope) - 1
        sc == SetLast(f.scope, Last(f.scope) \cup {ident})
        old == IF ident \in DOMAIN f.vars THEN f.vars[ident] ELSE <<>>
    IN SetLast(s, [scope |-> sc,
                   vars |-> MapPut(f.vars, ident, Append(Trim(old, cur_id), <<val, cur_id>>))])

(***************************************************************************)
(* Method tables (object.rs).  slot(v, name) tells whether the value's      *)
(* v_table holds the slot; call(m, v, name, arg) runs it.  A slot returns   *)
(* Some(value) or None; integer arithmetic can also abort the process.      *)
(***************************************************************************)
I32Max == 2147483647

I32Min == -I32Max - 1

Abs(n) == IF n < 0 THEN -n ELSE n

\* i32 arithmetic modulo 2^32 (wrapping_add, wrapping_neg, wrapping_mul), and
\* the conditions under which the exact result leaves the i32 range
AddOverflows(a, b) == (b > 0 /\ a > I32Max - b) \/ (b < 0 /\ a < I32Min - b)

SubOverflows(a, b) == (b > 0 /\ a < I32Min + b) \/ (b < 0 /\ a > I32Max + b)

MulOverflows(a, b) ==
    IF a = 0 \/ b = 0 \/ a = 1 \/ b = 1 THEN FALSE
    ELSE IF a = I32Min \/ b = I32Min THEN TRUE
    ELSE LET x == Abs(a)
             y == Abs(b)
         IN IF (a < 0) = (b < 0) THEN x > I32Max \div y
            ELSE ~(x <= I32Max \div y \/ (x = (I32Max \div y) + 1 /\ I32Max % y = y - 1))

WrapAdd(a, b) ==
    IF b > 0 /\ a > I32Max - b THEN (a + I32Min) + (b + I32Min)
    ELSE IF b < 0 /\ a < I32Min - b THEN (a - I32Min) + (b - I32Min)
    ELSE a + b

WrapNeg(a) == IF a = I32Min THEN I32Min ELSE -a

RECURSIVE WrapMul(_, _)
WrapMul(a, b) ==
    IF b = 0 THEN 0
    ELSE IF b = I32Min THEN (IF a % 2 = 0 THEN 0 ELSE I32Min)
    ELSE IF b < 0 THEN WrapMul(WrapNeg(a), -b)
    ELSE IF b % 2 = 1 THEN WrapAdd(a, WrapMul(WrapAdd(a, a), b \div 2))
    ELSE WrapMul(WrapAdd(a, a), b \div 2)

\* i32 division truncates toward zero
Quot(a, b) == IF (a < 0) = (b < 0) THEN Abs(a) \div Abs(b) ELSE -(Abs(a) \div Abs(b))

TruncDiv(a, b) ==
    IF b = I32Min THEN (IF a = I32Min THEN 1 ELSE 0)
    ELSE IF a = I32Min THEN (IF b > 0 THEN Quot(a + b, b) - 1 ELSE Quot(a - b, b) + 1)
    ELSE Quot(a, b)

Slots(type) ==
    CASE type = "Integer" -> {"str", "sub_lhs", "add_lhs", "mul_lhs", "div_lhs", "eq_lhs",
                              "neq_lhs", "le_lhs", "leq_lhs", "ge_lhs", "geq_lhs", "truthy"}
      [] type = "Bool" -> {"str", "eq_lhs", "neq_lhs", "neg", "inv", "truthy"}
      [] type = "Unit" -> {"truthy"}
      [] type = "Function" -> {"truthy"}
      [] type = "Collection" -> {"truthy", "uni_lhs", "ins_lhs"}
      [] type = "Vector" -> {"truthy", "add_lhs", "len", "str", "idx"}
      [] type = "Builtin" -> {"truthy"}
      [] type = "Str" -> {"truthy", "add_lhs", "str", "len"}

slot(v, name) == name \in Slots(v.type)

SlotRet(res, m) == [res |-> res, panic |-> FALSE, m |-> m]

SlotPanic(m) == [res |-> None, panic |-> TRUE, m |-> m]

\* Collection::erased: the new object holds `members`; the uni_lhs and ins_lhs
\* closures hold their own clones of the Arc made at construction (vt_members)
CollectionErased(members, m) ==
    [v |-> CollectionRef(Len(m.heap) + 1),
     m |-> [m EXCEPT !.heap = Append(@, [members |-> members, vt_members |-> members])]]

\* the arithmetic slots of Integer: `val op rhs` on i32.  An out-of-range result
\* panics when the build checks overflow and wraps otherwise; a zero divisor and
\* i32::MIN / -1 panic in every build.
IntArith(op, val, rhs, m) ==
    LET overflows == CASE op = "add_lhs" -> AddOverflows(val, rhs)
                       [] op = "sub_lhs" -> SubOverflows(val, rhs)
                       [] op = "mul_lhs" -> MulOverflows(val, rhs)
                       [] op = "div_lhs" -> FALSE
        wrapped == CASE op = "add_lhs" -> WrapAdd(val, rhs)
                     [] op = "sub_lhs" -> WrapAdd(val, WrapNeg(rhs))
                     [] op = "mul_lhs" -> WrapMul(val, rhs)
                     [] op = "div_lhs" -> TruncDiv(val, rhs)
    IN IF op = "div_lhs" /\ (rhs = 0 \/ (val = I32Min /\ rhs = -1)) THEN SlotPanic(m)
       ELSE IF overflows /\ m.build = "debug" THEN SlotPanic(m)
       ELSE SlotRet(Some(Integer(wrapped)), m)

IntegerSlot(val, name, arg, m) ==
    IF name = "str" THEN SlotRet(Some(Str(ToString(val))), m)
    ELSE IF name = "truthy" THEN SlotRet(IF val > 0 THEN Some(Unit) ELSE None, m)
    ELSE IF ~arg.some \/ arg.v.type # "Integer" THEN SlotRet(None, m)
    ELSE LET rhs == arg.v.val
         IN CASE name \in {"add_lhs", "sub_lhs", "mul_lhs", "div_lhs"} -> IntArith(name, val, rhs, m)
              [] name = "eq_lhs" -> SlotRet(Some(Bool(val = rhs)), m)
              [] name = "neq_lhs" -> SlotRet(Some(Bool(val # rhs)), m)
              [] name = "le_lhs" -> SlotRet(Some(Bool(val < rhs)), m)
              [] name = "leq_lhs" -> SlotRet(Some(Bool(val <= rhs)), m)
              [] name = "ge_lhs" -> SlotRet(Some(Bool(val > rhs)), m)
              [] name = "geq_lhs" -> SlotRet(Some(Bool(val >= rhs)), m)

BoolSlot(val, name, arg, m) ==
    CASE name = "str" -> SlotRet(Some(Str(IF val THEN "true" ELSE "false")), m)
      [] name \in {"neg", "inv"} -> SlotRet(Some(Bool(~val)), m)
      [] name = "truthy" -> SlotRet(IF val THEN Some(Unit) ELSE None, m)
      [] name \in {"eq_lhs", "neq_lhs"} ->
            IF ~arg.some \/ arg.v.type # "Bool" THEN SlotRet(None, m)
            ELSE SlotRet(Some(Bool(val = arg.v.b)), m)

StrSlot(str, name, arg, m) ==
    CASE name = "truthy" -> SlotRet(Some(Bool(Len(str) > 0)), m)
      [] name = "str" -> SlotRet(Some(Str(str)), m)
      [] name = "len" -> SlotRet(Some(Integer(Len(str))), m)
      [] name = "add_lhs" ->
            IF ~arg.some \/ arg.v.type # "Str" THEN SlotRet(None, m)
            ELSE SlotRet(Some(Str(str \o arg.v.str)), m)

CollectionSlot(addr, name, arg, m) ==
    IF name = "truthy" THEN SlotRet(None, m)
    ELSE IF ~arg.some \/ arg.v.type # "Collection" THEN SlotRet(None, m)
    ELSE LET rhs == m.heap[arg.v.addr].members
             members == m.heap[addr].vt_members
             made == IF name = "uni_lhs"
                     THEN [k \in (DOMAIN rhs) \cup (DOMAIN members) |->
                              IF k \in DOMAIN members THEN members[k] ELSE rhs[k]]
                     ELSE [k \in (DOMAIN members) \cap (DOMAIN rhs) |-> members[k]]
             c == CollectionErased(made, m)
         IN SlotRet(Some(c.v), c.m)

RECURSIVE VectorStr(_, _)
VectorStr(elements, i) ==
    IF i > Len(elements) THEN Some("")
    ELSE LET e == elements[i]
             s == CASE e.type = "Integer" -> Some(ToString(e.val))
                    [] e.type = "Bool" -> Some(IF e.b THEN "true" ELSE "false")
                    [] e.type = "Str" -> Some(e.str)
                    [] e.type = "Vector" -> IF VectorStr(e.elements, 1).some
                                            THEN Some("[" \o VectorStr(e.elements, 1).v \o "]")
                                            ELSE None
                    [] OTHER -> None
             rest == VectorStr(elements, i + 1)
         IN IF ~s.some \/ ~rest.some THEN None
            ELSE Some(s.v \o (IF i < Len(elements) THEN ", " ELSE "") \o rest.v)

VectorSlot(elements, name, arg, m) ==
    CASE name = "truthy" -> SlotRet(None, m)
      [] name = "len" -> SlotRet(Some(Integer(Len(elements))), m)
      [] name = "str" -> SlotRet(IF VectorStr(elements, 1).some
                                 THEN Some(Str("[" \o VectorStr(elements, 1).v \o "]"))
                                 ELSE None, m)
      [] name = "add_lhs" ->
            IF ~arg.some \/ arg.v.type # "Vector" THEN SlotRet(None, m)
            ELSE SlotRet(Some(Vector(elements \o arg.v.elements)), m)
      [] name = "idx" ->
            IF ~arg.some \/ arg.v.type # "Integer" THEN SlotRet(None, m)
            ELSE LET rhs == arg.v.val
                 IN SlotRet(Some(IF rhs >= 0 /\ rhs < Len(elements) THEN elements[rhs + 1] ELSE Unit), m)

call(m, v, name, arg) ==
    CASE v.type = "Integer" -> IntegerSlot(v.val, name, arg, m)
      [] v.type = "Bool" -> BoolSlot(v.b, name, arg, m)
      [] v.type = "Str" -> StrSlot(v.str, name, arg, m)
      [] v.type = "Collection" -> CollectionSlot(v.addr, name, arg, m)
      [] v.type = "Vector" -> VectorSlot(v.elements, name, arg, m)
      [] OTHER -> SlotRet(None, m)

(***************************************************************************)
(* AST (ast.rs).  Every node is a record with a `kind`.                     *)
(***************************************************************************)
Let(name, value) == [kind |-> "Let", name |-> name, value |-> value]

Return(value) == [kind |-> "Return", value |-> value]

ExprStmt(expr) == [kind |-> "ExprStmt", expr |-> expr]

Empty == [kind |-> "Empty"]

Program(statements) == [kind |-> "Program", statements |-> statements, errors |-> <<>>]

Ident(name) == [kind |-> "Ident", name |-> name]

IntLit(n) == [kind |-> "Int", int |-> n]

BoolLit(b) == [kind |-> "Bool", bool |-> b]

StringLit(s) == [kind |-> "String", string |-> s]

FunctionLit(parameters, body, capture) ==
    [kind |-> "Function", parameters |-> parameters, body |-> body, capture |-> capture]

CollectionLit(members) == [kind |-> "Collection", members |-> members]

VectorLit(elements) == [kind |-> "Vector", elements |-> elements]

Prefix(operator, operand) == [kind |-> "Prefix", operator |-> operator, operand |-> operand]

Infix(operator, lhs, rhs) == [kind |-> "Infix", operator |-> operator, lhs |-> lhs, rhs |-> rhs]

Block(statements) == [kind |-> "Block", statements |-> statements]

If(condition, consequence, alternative) ==
    [kind |-> "If", condition |-> condition, consequence |-> consequence,
     alternative |-> alternative]

Invoked(invoked, args) == [kind |-> "Invoked", invoked |-> invoked, args |-> args]

Indexed(indexee, index) == [kind |-> "Indexed", indexee |-> indexee, index |-> index]

(***************************************************************************)
(* Evaluator (eval.rs).  m is the machine: the Eval's stack, the heap of    *)
(* collections, the build kind and an observation log.  A result carries    *)
(* flow Continue or Break (Ok), Err (an Error::Eval), Panic (the process    *)
(* aborts) or Exit (process::exit).                                         *)
(***************************************************************************)
Ret(flow, val, m) == [flow |-> flow, val |-> val, m |-> m]

Continue(val, m) == Ret("Continue", val, m)

Break(val, m) == Ret("Break", val, m)

Err(msg, m) == Ret("Err", [type |-> "Error", msg |-> msg], m)

Panic(m) == Ret("Panic", [type |-> "Error", msg |-> "panic"], m)

\* what the `?` operator propagates, and what unwinds through every caller
Aborts(r) == r.flow \in {"Err", "Panic", "Exit"}

Log(m, e) == [m EXCEPT !.log = Append(@, e)]

\* self.stack.get(..) as the evaluator calls it, observed in the log
Lookup(m, name) ==
    [res |-> get(m.stack, name),
     m |-> Log(m, [ev |-> "get", name |-> name, found |-> get(m.stack, name).some,
                   frames |-> Len(m.stack)])]

BuiltinCall(name, args, m) ==
    CASE name = "len" ->
            IF Len(args) # 1 THEN Err("Incorrect number of arguments used for len()", m)
            ELSE IF ~slot(args[1], "len") THEN Err("Object does not implement len operation.", m)
            ELSE LET int == call(m, args[1], "len", None)
                 IN IF ~int.res.some \/ int.res.v.type # "Integer"
                    THEN Err("Object does not implement len operation.", int.m)
                    ELSE Continue(Integer(int.res.v.val), int.m)
      [] name = "print" ->
            IF Len(args) # 1 THEN Err("Incorrect number of arguments used for print()", m)
            ELSE IF ~slot(args[1], "str")
                 THEN Err("Object passed to print does not have a string represenetation.", m)
            ELSE LET f == call(m, args[1], "str", None)
                     str == IF f.res.some THEN f.res.v ELSE Str("")
                 IN IF str.type # "Str"
                    THEN Err("Object did not return valid string representation.", f.m)
                    ELSE Continue(Unit, Log(f.m, [ev |-> "print", text |-> str.str]))
      [] name \in {"yeet", "exit"} ->
            IF Len(args) # 0 THEN Err("Incorrect number of arguments used for len()", m)
            ELSE Ret("Exit", Unit, m)

InfixSlot(operator) ==
    CASE operator \in {"Minus", "MinusEqual"} -> Some("sub_lhs")
      [] operator \in {"Plus", "PlusEqual"} -> Some("add_lhs")
      [] operator = "Multiply" -> Some("mul_lhs")
      [] operator = "Divide" -> Some("div_lhs")
      [] operator = "Equal" -> Some("eq_lhs")
      [] operator = "NotEqual" -> Some("neq_lhs")
      [] operator = "Less" -> Some("le_lhs")
      [] operator = "LessOrEqual" -> Some("leq_lhs")
      [] operator = "Greater" -> Some("ge_lhs")
      [] operator = "GreaterOrEqual" -> Some("geq_lhs")
      [] operator = "Ampersand" -> Some("ins_lhs")
      [] operator = "Pipe" -> Some("uni_lhs")
      [] OTHER -> None

\* names of the lookups made in the called function's own frame that found
\* (or did not find) a binding
Resolved(log, from, frames, found) ==
    {log[i].name : i \in {j \in from..Len(log) :
                            log[j].ev = "get" /\ log[j].found = found /\ log[j].frames = frames}}

RECURSIVE eval(_, _), eval_function(_, _, _, _), eval_index(_, _, _), eval_invoke(_, _, _),
          eval_args(_, _, _), bind_parameters(_, _, _, _), eval_statements(_, _, _),
          eval_prefix(_, _, _), eval_access(_, _, _, _), eval_access_assign(_, _, _, _, _),
          eval_assign(_, _, _, _), eval_infix(_, _, _, _), eval_if(_, _, _, _),
          eval_members(_, _, _, _), eval_elements(_, _, _), capture_fold(_, _, _)

\* members.into_iter().try_fold(..) of the Collection literal; todo lists the
\* idents still to visit
eval_members(members, todo, acc, m) ==
    IF todo = {} THEN Continue(acc, m)
    ELSE LET ident == CHOOSE i \in todo : TRUE
             member == eval(members[ident], m)
         IN IF Aborts(member) THEN member
            ELSE eval_members(members, todo \ {ident}, MapPut(acc, ident, member.val), member.m)

\* elements.into_iter().try_fold(..) of the Vector literal
eval_elements(elements, acc, m) ==
    IF Len(elements) = 0 THEN Continue(acc, m)
    ELSE LET reference == eval(Head(elements), m)
         IN IF Aborts(reference) THEN reference
            ELSE eval_elements(Tail(elements), Append(acc, reference.val), reference.m)

eval(node, m) ==
    CASE node.kind = "ExprStmt" -> eval(node.expr, m)
      [] node.kind = "Int" -> Continue(Integer(node.int), m)
      [] node.kind = "Bool" -> Continue(Bool(node.bool), m)
      [] node.kind = "String" -> Continue(Str(node.string), m)
      [] node.kind = "Ident" ->
            LET val == Lookup(m, node.name)
            IN IF val.res.some THEN Continue(val.res.v, val.m)
               ELSE Err("Variable not found in scope", val.m)
      [] node.kind = "Prefix" -> eval_prefix(node.operator, node.operand, m)
      [] node.kind = "Infix" -> eval_infix(node.operator, node.lhs, node.rhs, m)
      [] node.kind = "If" -> eval_if(node.condition, node.consequence, node.alternative, m)
      [] node.kind = "Block" ->
            LET ret == eval_statements(node.statements, 1, [m EXCEPT !.stack = push(@)])
                popped == pop(ret.m.stack)
            IN IF Aborts(ret) THEN ret
               ELSE [ret EXCEPT !.m = Log([ret.m EXCEPT !.stack = popped],
                                          [ev |-> "block", flow |-> ret.flow,
                                           before |-> Last(m.stack), inner |-> Last(ret.m.stack),
                                           after |-> Last(popped), frames |-> Len(m.stack)])]
      [] node.kind = "Program" -> eval_statements(node.statements, 1, m)
      [] node.kind = "Return" ->
            LET ret == eval(node.value, m)
            IN IF Aborts(ret) THEN ret ELSE Break(ret.val, ret.m)
      [] node.kind = "Let" -> eval_assign("Assign", Ident(node.name), node.value, m)
      [] node.kind = "Invoked" -> eval_invoke(node.invoked, node.args, m)
      [] node.kind = "Function" -> eval_function(node.parameters, node.body, node.capture, m)
      [] node.kind = "Collection" ->
            LET members == eval_members(node.members, DOMAIN node.members, EmptyMap, m)
            IN IF Aborts(members) THEN members
               ELSE LET c == CollectionErased(members.val, members.m)
                    IN Continue(c.v, c.m)
      [] node.kind = "Vector" ->
            LET elements == eval_elements(node.elements, <<>>, m)
            IN IF Aborts(elements) THEN elements
               ELSE Continue(Vector(elements.val), elements.m)
      [] node.kind = "Indexed" -> eval_index(node.indexee, node.index, m)
      [] OTHER -> Panic(m)

capture_fold(capture, map, m) ==
    IF Len(capture) = 0 THEN Continue(map, m)
    ELSE LET ident == Head(capture)
             value == Lookup(m, ident)
         IN IF value.res.some
            THEN capture_fold(Tail(capture), MapPut(map, ident, value.res.v), value.m)
            ELSE Err("Attempting to capture unknown variable in function decleration.", value.m)

eval_function(parameters, body, capture, m) ==
    LET captured == capture_fold(capture, EmptyMap, m)
    IN IF Aborts(captured) THEN captured
       ELSE Continue(Function(parameters, body, captured.val), captured.m)

eval_index(indexee, index, m) ==
    LET idx == eval(index, m)
    IN IF Aborts(idx) THEN idx
       ELSE LET obj == eval(indexee, idx.m)
            IN IF Aborts(obj) THEN obj
               ELSE IF ~slot(obj.val, "idx") THEN Err("Object does not support indexing", obj.m)
               ELSE LET res == call(obj.m, obj.val, "idx", Some(idx.val))
                    IN IF res.res.some THEN Continue(res.res.v, res.m)
                       ELSE Err("Indexing not supported with this object.", res.m)

\* args.into_iter().try_fold(..): every argument's flow is unwrapped
eval_args(args, acc, m) ==
    IF Len(args) = 0 THEN Continue(acc, m)
    ELSE LET arg == eval(Head(args), m)
         IN IF Aborts(arg) THEN arg
            ELSE eval_args(Tail(args), Append(acc, arg.val), arg.m)

\* for (ident, arg) in function.parameters.iter().zip(args) { self.stack.add(..) }
bind_parameters(parameters, args, i, s) ==
    IF i > Len(parameters) THEN s
    ELSE bind_parameters(parameters, args, i + 1, add(s, parameters[i], args[i]))

RECURSIVE bind_capture(_, _, _)
\* for (ident, captured) in &function.capture { self.stack.add(..) }
bind_capture(capture, todo, s) ==
    IF todo = {} THEN s
    ELSE LET ident == CHOOSE i \in todo : TRUE
         IN bind_capture(capture, todo \ {ident}, add(s, ident, capture[ident]))

\* the body's result taken with `?`: an error returns before pop_frame
eval_invoke_early_return(invoked, args, m) ==
    LET function == eval(invoked, m)
    IN IF Aborts(function) THEN function
       ELSE LET argv == eval_args(args, <<>>, function.m)
                f == function.val
            IN IF Aborts(argv) THEN argv
               ELSE IF f.type = "Builtin" THEN BuiltinCall(f.builtin, argv.val, argv.m)
               ELSE IF f.type # "Function"
                    THEN Err("Inovking non-function types is not supported", argv.m)
               ELSE IF Len(f.parameters) # Len(argv.val)
                    THEN Err("Incorrect number of arguments passed for invocation", argv.m)
               ELSE LET framed == push_frame(argv.m.stack)
                        bound == bind_capture(f.capture, DOMAIN f.capture,
                                              bind_parameters(f.parameters, argv.val, 1, framed))
                        ret == eval(f.body, [argv.m EXCEPT !.stack = bound])
                        popped == pop_frame(ret.m.stack)
                    IN IF ret.flow = "Err" THEN ret
                       ELSE [ret EXCEPT !.m = Log([ret.m EXCEPT !.stack = popped],
                                             [ev |-> "invoke", flow |-> ret.flow,
                                              function |-> f,
                                              resolved |-> Resolved(ret.m.log, Len(argv.m.log) + 1,
                                                                    Len(bound), TRUE),
                                              missed |-> Resolved(ret.m.log, Len(argv.m.log) + 1,
                                                                  Len(bound), FALSE),
                                              caller_before |-> argv.m.stack,
                                              caller_after |-> popped])]

eval_invoke(invoked, args, m) ==
    LET function == eval(invoked, m)
    IN IF Aborts(function) THEN function
       ELSE LET argv == eval_args(args, <<>>, function.m)
                f == function.val
            IN IF Aborts(argv) THEN argv
               ELSE IF f.type = "Builtin" THEN BuiltinCall(f.builtin, argv.val, argv.m)
               ELSE IF f.type # "Function"
                    THEN Err("Inovking non-function types is not supported", argv.m)
               ELSE IF Len(f.parameters) # Len(argv.val)
                    THEN Err("Incorrect number of arguments passed for invocation", argv.m)
               ELSE LET framed == push_frame(argv.m.stack)
                        bound == bind_capture(f.capture, DOMAIN f.capture,
                                              bind_parameters(f.parameters, argv.val, 1, framed))
                        ret == eval(f.body, [argv.m EXCEPT !.stack = bound])
                        popped == pop_frame(ret.m.stack)
                    IN [ret EXCEPT !.m = Log([ret.m EXCEPT !.stack = popped],
                                             [ev |-> "invoke", flow |-> ret.flow,
                                              function |-> f,
                                              resolved |-> Resolved(ret.m.log, Len(argv.m.log) + 1,
                                                                    Len(bound), TRUE),
                                              missed |-> Resolved(ret.m.log, Len(argv.m.log) + 1,
                                                                  Len(bound), FALSE),
                                              caller_before |-> argv.m.stack,
                                              caller_after |-> popped])]

eval_statements(statements, i, m) ==
    IF i > Len(statements) THEN Continue(Unit, m)
    ELSE LET ret == eval(statements[i], m)
         IN IF Aborts(ret) \/ ret.flow = "Break" THEN ret
            ELSE IF i = Len(statements) THEN ret
            ELSE eval_statements(statements, i + 1, ret.m)

eval_prefix(operator, operand, m) ==
    LET val == eval(operand, m)
        name == IF operator = "Bang" THEN "inv" ELSE "neg"
    IN IF Aborts(val) \/ val.flow = "Break" THEN val
       ELSE IF operator \notin {"Bang", "Minus"} THEN Panic(val.m)
       ELSE IF ~slot(val.val, name) THEN Err("Unsupported operator for operand type", val.m)
       ELSE LET res == call(val.m, val.val, name, None)
            IN IF res.res.some THEN Continue(res.res.v, res.m)
               ELSE Err("Unsupported operator for operand type", res.m)

eval_access(operator, lhs, rhs, m) ==
    LET collection ==
            CASE lhs.kind = "Collection" -> eval(lhs, m)
              [] lhs.kind = "Ident" ->
                    LET c == Lookup(m, lhs.name)
                    IN IF c.res.some THEN Continue(c.res.v, c.m)
                       ELSE Err("Cannot find in the current scope.", c.m)
              [] OTHER -> Err("Accessing non-collection types is not supported.", m)
    IN IF Aborts(collection) THEN collection
       ELSE IF collection.val.type # "Collection"
            THEN Err("Accessing non-collection types is not supported", collection.m)
       ELSE LET members == collection.m.heap[collection.val.addr].members
            IN IF rhs.kind # "Ident"
               THEN LET r == eval(rhs, collection.m)
                    IN IF Aborts(r) THEN r
                       ELSE Err("Exprected identifier as accessor instead", r.m)
               ELSE IF rhs.name \in DOMAIN members
                    THEN Continue(members[rhs.name], collection.m)
                    ELSE Err("Collection does not contain the member.", collection.m)

\* the map the collection was created with is changed as well
eval_access_assign_in_place(operator, collection, accessor, rhs, m) ==
    LET c == eval(collection, m)
    IN IF Aborts(c) THEN c
       ELSE IF accessor.kind # "Ident"
            THEN Err("Collection can only be accessed via an ident.", c.m)
       ELSE IF c.val.type # "Collection" THEN Err("Only collections can be accessed.", c.m)
       ELSE LET r == eval(rhs, c.m)
            IN IF Aborts(r) \/ r.flow = "Break" THEN r
               ELSE LET map == MapPut(r.m.heap[c.val.addr].members, accessor.name, r.val)
                    IN [r EXCEPT !.m.heap[c.val.addr].members = map,
                                 !.m.heap[c.val.addr].vt_members = map]

eval_access_assign(operator, collection, accessor, rhs, m) ==
    LET c == eval(collection, m)
    IN IF Aborts(c) THEN c
       ELSE IF accessor.kind # "Ident"
            THEN Err("Collection can only be accessed via an ident.", c.m)
       ELSE IF c.val.type # "Collection" THEN Err("Only collections can be accessed.", c.m)
       ELSE LET r == eval(rhs, c.m)
            IN IF Aborts(r) \/ r.flow = "Break" THEN r
               ELSE LET map == MapPut(r.m.heap[c.val.addr].members, accessor.name, r.val)
                    IN [r EXCEPT !.m.heap[c.val.addr].members = map]

eval_assign(operator, lhs, rhs, m) ==
    IF lhs.kind = "Infix" /\ lhs.operator = "Dot"
    THEN eval_access_assign(operator, lhs.lhs, lhs.rhs, rhs, m)
    ELSE IF lhs.kind # "Ident"
    THEN LET l == eval(lhs, m)
         IN IF Aborts(l) THEN l
            ELSE Err("Exprected identifier in assignment got instead", l.m)
    ELSE LET ident == lhs.name
             r == eval(rhs, m)
         IN IF Aborts(r) \/ r.flow = "Break" THEN r
            ELSE IF operator \in {"MinusEqual", "PlusEqual"}
            THEN LET op == IF operator = "PlusEqual" THEN "add_lhs" ELSE "sub_lhs"
                     l == Lookup(r.m, ident)
                 IN IF ~l.res.some THEN Err("Identifier not found in scope", l.m)
                    ELSE IF ~slot(l.res.v, op)
                         THEN Err("Unsupported operator for operand types", l.m)
                    ELSE LET res == call(l.m, l.res.v, op, Some(r.val))
                         IN IF res.panic THEN Panic(res.m)
                            ELSE IF ~res.res.some
                                 THEN Err("Unsupported operator for operand types", res.m)
                            ELSE Continue(res.res.v,
                                          [res.m EXCEPT !.stack = assign(@, ident, res.res.v)])
            ELSE Continue(r.val, [r.m EXCEPT !.stack = assign(@, ident, r.val)])

eval_infix(operator, lhs, rhs, m) ==
    IF operator \in {"Assign", "PlusEqual", "MinusEqual"} THEN eval_assign(operator, lhs, rhs, m)
    ELSE IF operator = "Dot" THEN eval_access(operator, lhs, rhs, m)
    ELSE LET l == eval(lhs, m)
         IN IF Aborts(l) \/ l.flow = "Break" THEN l
            ELSE LET r == eval(rhs, l.m)
                     op == InfixSlot(operator)
                 IN IF Aborts(r) \/ r.flow = "Break" THEN r
                    ELSE IF ~op.some THEN Err("Infix operator is not supported", r.m)
                    ELSE IF ~slot(l.val, op.v)
                         THEN Err("Unsupported operator for operand types", r.m)
                    ELSE LET res == call(r.m, l.val, op.v, Some(r.val))
                         IN IF res.panic THEN Panic(res.m)
                            ELSE IF res.res.some THEN Continue(res.res.v, res.m)
                            ELSE Err("Unsupported operator for operand types", res.m)

eval_if_present(condition, consequence, alternative, m) ==
    LET cond == eval(condition, m)
    IN IF Aborts(cond) \/ cond.flow = "Break" THEN cond
       ELSE IF ~slot(cond.val, "truthy")
            THEN Err("Condition type is not fit for conditions.", cond.m)
       ELSE eval(consequence, cond.m)

eval_if(condition, consequence, alternative, m) ==
    LET cond == eval(condition, m)
    IN IF Aborts(cond) \/ cond.flow = "Break" THEN cond
       ELSE IF ~slot(cond.val, "truthy")
            THEN Err("Condition type is not fit for conditions.", cond.m)
       ELSE IF call(cond.m, cond.val, "truthy", None).res.some THEN eval(consequence, cond.m)
       ELSE IF alternative.some THEN eval(alternative.v, cond.m)
       ELSE Continue(Unit, cond.m)

(***************************************************************************)
(* Tokens (token.rs, as parser.rs matches them)                             *)
(***************************************************************************)
TIdent(name) == [t |-> "Ident", name |-> name]

TInt(n) == [t |-> "Int", int |-> n]

TKeyword(kw) == [t |-> "Keyword", kw |-> kw]

TOperator(op) == [t |-> "Operator", op |-> op]

TPunct(t) == [t |-> t]

EOF == TPunct("EOF")

IsOperator(tok, ops) == tok.t = "Operator" /\ tok.op \in ops

IsKeyword(tok, kws) == tok.t = "Keyword" /\ tok.kw \in kws

TStr(str) == [t |-> "Str", str |-> str]

(***************************************************************************)
(* Lexer (lexer.rs).  The input is a sequence of characters, each a string  *)
(* of length one; NUL stands for the character '\0'.  l is the Lexer:       *)
(* input, position, read_position and the current character c.              *)
(***************************************************************************)
NUL == "NUL"

Letters ==
    {"a", "b", "c", "d", "e", "f", "g", "h", "i", "j", "k", "l", "m", "n", "o", "p", "q", "r",
     "s", "t", "u", "v", "w", "x", "y", "z", "A", "B", "C", "D", "E", "F", "G", "H", "I", "J",
     "K", "L", "M", "N", "O", "P", "Q", "R", "S", "T", "U", "V", "W", "X", "Y", "Z", "_"}

DigitValue ==
    [d \in {"0", "1", "2", "3", "4", "5", "6", "7", "8", "9"} |->
        CASE d = "0" -> 0 [] d = "1" -> 1 [] d = "2" -> 2 [] d = "3" -> 3 [] d = "4" -> 4
          [] d = "5" -> 5 [] d = "6" -> 6 [] d = "7" -> 7 [] d = "8" -> 8 [] d = "9" -> 9]

read_char(l) ==
    [l EXCEPT !.c = IF l.read_position >= Len(l.input) THEN NUL
                    ELSE l.input[l.read_position + 1],
              !.position = l.read_position,
              !.read_position = l.read_position + 1]

LexerNew(text) == read_char([input |-> text, position |-> 0, read_position |-> 0, c |-> NUL])

read_single_token(l) ==
    CASE l.c = "+" -> TOperator("Plus")
      [] l.c = "-" -> TOperator("Minus")
      [] l.c = "/" -> TOperator("Divide")
      [] l.c = "*" -> TOperator("Multiply")
      [] l.c = "<" -> TOperator("Less")
      [] l.c = ">" -> TOperator("Greater")
      [] l.c = "=" -> TOperator("Assign")
      [] l.c = "." -> TOperator("Dot")
      [] l.c = "!" -> TOperator("Bang")
      [] l.c = "?" -> TOperator("Hook")
      [] l.c = "&" -> TOperator("Ampersand")
      [] l.c = "|" -> TOperator("Pipe")
      [] l.c = "{" -> TPunct("LBrace")
      [] l.c = "}" -> TPunct("RBrace")
      [] l.c = "[" -> TPunct("LBracket")
      [] l.c = "]" -> TPunct("RBracket")
      [] l.c = "(" -> TPunct("LParen")
      [] l.c = ")" -> TPunct("RParen")
      [] l.c = ";" -> TPunct("Semicolon")
      [] l.c = "," -> TPunct("Comma")
      [] OTHER -> TPunct("Illegal")

peek_next(l) == IF l.read_position >= Len(l.input) THEN NUL ELSE l.input[l.read_position + 1]

\* what a call of the lexer gives back: a token and the lexer after it, or the
\* panic that ended the process
LOk(tok, l) == [st |-> "ok", tok |-> tok, l |-> l]

LPanic(l) == [st |-> "panic", tok |-> TPunct("Illegal"), l |-> l]

\* the two-character operator spelled by the characters c and next, if any
DoubleOperator(c, next) ==
    CASE next = "=" /\ c = "!" -> Some("NotEqual")
      [] next = "=" /\ c = "=" -> Some("Equal")
      [] next = "=" /\ c = ">" -> Some("GreaterOrEqual")
      [] next = "=" /\ c = "<" -> Some("LessOrEqual")
      [] next = "=" /\ c = "+" -> Some("PlusEqual")
      [] next = "=" /\ c = "-" -> Some("MinusEqual")
      [] next = ">" /\ c = "-" -> Some("RightArrow")
      [] next = "-" /\ c = "<" -> Some("LeftArrow")
      [] next = "&" /\ c = "&" -> Some("And")
      [] next = "|" /\ c = "|" -> Some("Or")
      [] OTHER -> None

\* a lexer that never looks at the next character
read_double_token_single(l) == LOk(read_single_token(l), l)

read_double_token(l) ==
    IF l.position + 1 > Len(l.input) THEN LOk(read_single_token(l), l)
    ELSE IF DoubleOperator(l.c, peek_next(l)).some
    THEN LOk(TOperator(DoubleOperator(l.c, peek_next(l)).v), read_char(l))
    ELSE LOk(read_single_token(l), l)

is_whitespace(l) == l.c \in {" ", "\t", "\n", "\r"}

RECURSIVE skip_whitespace(_)
skip_whitespace(l) == IF is_whitespace(l) THEN skip_whitespace(read_char(l)) ELSE l

is_letter(l) == l.c \in Letters

is_integer(l) == l.c \in DOMAIN DigitValue

\* self.input[from..self.position].iter().collect()
RECURSIVE Collect(_, _, _)
Collect(text, from, to) ==
    IF from >= to THEN "" ELSE text[from + 1] \o Collect(text, from + 1, to)

RECURSIVE WhileLetter(_)
WhileLetter(l) == IF is_letter(l) THEN WhileLetter(read_char(l)) ELSE l

read_ident(l) ==
    [str |-> Collect(l.input, l.position, WhileLetter(l).position), l |-> WhileLetter(l)]

Keywords ==
    [k \in {"let", "fn", "def", "true", "false", "if", "else", "return"} |->
        CASE k = "let" -> "Let" [] k = "fn" -> "Function" [] k = "def" -> "Def"
          [] k = "true" -> "True" [] k = "false" -> "False" [] k = "if" -> "If"
          [] k = "else" -> "Else" [] k = "return" -> "Return"]

RECURSIVE WhileInteger(_)
WhileInteger(l) == IF is_integer(l) THEN WhileInteger(read_char(l)) ELSE l

\* str::parse::<i32> on a run of digits: Err when the value leaves the i32 range
RECURSIVE ParseI32(_, _, _, _)
ParseI32(text, from, to, acc) ==
    IF from >= to THEN Some(acc)
    ELSE IF acc > (I32Max - DigitValue[text[from + 1]]) \div 10 THEN None
    ELSE ParseI32(text, from + 1, to, acc * 10 + DigitValue[text[from + 1]])

\* .parse::<i32>().unwrap()
read_integer(l) ==
    IF ParseI32(l.input, l.position, WhileInteger(l).position, 0).some
    THEN LOk(TInt(ParseI32(l.input, l.position, WhileInteger(l).position, 0).v),
             WhileInteger(l))
    ELSE LPanic(WhileInteger(l))

RECURSIVE WhileString(_)
WhileString(l) == IF l.c # "\"" /\ l.c # NUL THEN WhileString(read_char(l)) ELSE l

read_string(l) ==
    [str |-> Collect(l.input, read_char(l).position, WhileString(read_char(l)).position),
     l |-> read_char(WhileString(read_char(l)))]

\* Lexer::next_token after skip_whitespace
ScanToken(l) ==
    CASE l.c \in {"=", "!", "-", "+", "&", "|", "<", ">"} ->
            LOk(read_double_token(l).tok, read_char(read_double_token(l).l))
      [] l.c \in {"/", "*", ".", "?", "{", "}", "(", ")", "[", "]", ";", ","} ->
            LOk(read_single_token(l), read_char(l))
      [] l.c = "\"" -> LOk(TStr(read_string(l).str), read_string(l).l)
      [] l.c = NUL -> LOk(EOF, read_char(l))
      [] is_letter(l) ->
            IF read_ident(l).str \in DOMAIN Keywords
            THEN LOk(TKeyword(Keywords[read_ident(l).str]), read_ident(l).l)
            ELSE LOk(TIdent(read_ident(l).str), read_ident(l).l)
      [] is_integer(l) -> read_integer(l)
      [] OTHER -> LOk(TPunct("Illegal"), read_char(l))

Lexer_next_token(l) == ScanToken(skip_whitespace(l))

(***************************************************************************)
(* Parser (parser.rs).  p is the Parser: the token source with the position *)
(* of the next token to read, cur, peek and the collected errors.  A parse  *)
(* function returns ok with a node, err with an Error, or panic.            *)
(***************************************************************************)
Lowest == 0

AssignPrec == 1

Equals == 2

LessGreater == 3

Sum == 4

Product == 5

PrefixPrec == 6

Invoke == 7

\* sum and product levels exchanged
precendence_swapped(tok) ==
    CASE tok.t = "LParen" -> Invoke
      [] IsOperator(tok, {"Divide", "Multiply"}) -> Sum
      [] IsOperator(tok, {"Plus", "Minus"}) -> Product
      [] IsOperator(tok, {"Assign"}) -> AssignPrec
      [] IsOperator(tok, {"Equal", "NotEqual"}) -> Equals
      [] IsOperator(tok, {"Less", "LessOrEqual", "Greater", "GreaterOrEqual"}) -> LessGreater
      [] OTHER -> Lowest

precendence(tok) ==
    CASE tok.t = "LParen" -> Invoke
      [] IsOperator(tok, {"Divide", "Multiply"}) -> Product
      [] IsOperator(tok, {"Plus", "Minus"}) -> Sum
      [] IsOperator(tok, {"Assign"}) -> AssignPrec
      [] IsOperator(tok, {"Equal", "NotEqual"}) -> Equals
      [] IsOperator(tok, {"Less", "LessOrEqual", "Greater", "GreaterOrEqual"}) -> LessGreater
      [] OTHER -> Lowest

\* the lexer behind the parser: the tokens of the input, then EOF forever
TokenAt(toks, pos) == IF pos <= Len(toks) THEN toks[pos] ELSE EOF

ParserNew(toks) ==
    [toks |-> toks, pos |-> 3, cur |-> TokenAt(toks, 1), peek |-> TokenAt(toks, 2),
     errors |-> <<>>]

next_token(p) == [p EXCEPT !.cur = p.peek, !.peek = TokenAt(p.toks, p.pos), !.pos = p.pos + 1]

POk(v, p) == [st |-> "ok", v |-> v, p |-> p]

PErr(error, msg, p) == [st |-> "err", v |-> [error |-> error, msg |-> msg], p |-> p]

PPanic(p) == [st |-> "panic", v |-> [error |-> "panic", msg |-> "not yet implemented"], p |-> p]

expect_peek(p, ok, error, msg) == IF ~ok THEN PErr(error, msg, p) ELSE POk(Unit, next_token(p))

peek_precedence(p) == precendence(p.peek)

cur_precedence(p) == precendence(p.cur)

InfixOperators ==
    {"Assign", "Plus", "Minus", "Divide", "Multiply", "Equal", "NotEqual", "Less",
     "LessOrEqual", "Greater", "GreaterOrEqual"}

RECURSIVE parse_statement(_), parse_return(_), parse_let(_), parse_expression(_, _),
          parse_led(_, _, _), parse_prefix(_), parse_invoke(_, _), parse_args(_, _, _),
          parse_function(_), parse_if(_), parse_else(_, _, _), parse_block(_),
          parse_block_loop(_, _), parse_grouped(_), parse_infix_operator(_, _)

parse_int(p) == POk(IntLit(p.cur.int), p)

parse_ident(p) == POk(Ident(p.cur.name), p)

parse_bool(p) == POk(BoolLit(IsKeyword(p.cur, {"True"})), p)

\* the `?` after a fallible call (parser.rs:66, 78-100, 106-158, ...): an Err,
\* or a panic, leaves the function at once; an Ok value goes on into the rest
\* of the function
Try(r, Rest(_)) == IF r.st # "ok" THEN r ELSE Rest(r)

parse_statement(p) ==
    IF IsKeyword(p.cur, {"Let"}) THEN parse_let(p)
    ELSE IF IsKeyword(p.cur, {"Return"}) THEN parse_return(p)
    ELSE IF p.cur.t = "Semicolon" THEN POk(Empty, p)
    ELSE Try(parse_expression(p, Lowest), LAMBDA expression :
             POk(ExprStmt(expression.v),
                 IF expression.p.peek.t = "Semicolon" THEN next_token(expression.p)
                 ELSE expression.p))

parse_return(p) ==
    Try(parse_expression(next_token(p), Lowest), LAMBDA value :
    Try(expect_peek(value.p, value.p.peek.t = "Semicolon", "LetStatement",
                    "Expected semicolon at the end of statment"), LAMBDA semi :
    POk(Return(value.v), semi.p)))

parse_let(p) ==
    Try(expect_peek(p, p.peek.t = "Ident", "LetStatement", "Expected identifier after let"),
        LAMBDA id :
    Try(expect_peek(id.p, IsOperator(id.p.peek, {"Assign"}), "LetStatement",
                    "Expected assignment operator after identifier"), LAMBDA eq :
    Try(parse_expression(next_token(eq.p), Lowest), LAMBDA value :
    Try(expect_peek(value.p, value.p.peek.t = "Semicolon", "LetStatement",
                    "Expected semicolon at the end of statment"), LAMBDA semi :
    POk(Let(id.p.cur.name, value.v), semi.p)))))

\* the `while` loop of parse_expression: the led handlers
parse_led(p, lhs, precedence) ==
    IF p.peek.t # "Semicolon" /\ precedence < peek_precedence(p)
    THEN IF IsOperator(p.peek, InfixOperators)
         THEN Try(parse_infix_operator(next_token(p), lhs), LAMBDA infix :
                  parse_led(infix.p, infix.v, precedence))
         ELSE IF p.peek.t = "LParen"
         THEN Try(parse_invoke(next_token(p), lhs), LAMBDA invoke :
                  parse_led(invoke.p, invoke.v, precedence))
         ELSE POk(lhs, p)
    ELSE POk(lhs, p)

parse_expression(p, precedence) ==
    Try(CASE p.cur.t = "LParen" -> parse_grouped(p)
          [] p.cur.t = "LBrace" -> parse_block(p)
          [] p.cur.t = "Ident" -> parse_ident(p)
          [] p.cur.t = "Int" -> parse_int(p)
          [] IsKeyword(p.cur, {"If"}) -> parse_if(p)
          [] IsKeyword(p.cur, {"True", "False"}) -> parse_bool(p)
          [] IsKeyword(p.cur, {"Function"}) -> parse_function(p)
          [] IsOperator(p.cur, {"Bang", "Minus"}) -> parse_prefix(p)
          [] OTHER -> PPanic(p),
        LAMBDA lhs : parse_led(lhs.p, lhs.v, precedence))

parse_prefix(p) ==
    Try(parse_expression(next_token(p), PrefixPrec), LAMBDA operand :
    POk(Prefix(p.cur.op, operand.v), operand.p))

\* the `while` loop of parse_invoke
parse_args(p, lhs, args) ==
    IF p.peek.t # "RParen" /\ p.cur.t # "EOF"
    THEN Try(parse_expression(next_token(p), Lowest), LAMBDA arg :
             parse_args(IF arg.p.peek.t = "Comman" THEN next_token(arg.p) ELSE arg.p,
                        lhs, Append(args, arg.v)))
    ELSE POk(args, p)

parse_invoke(p, lhs) ==
    Try(parse_args(p, lhs, <<>>), LAMBDA args :
    Try(expect_peek(args.p, args.p.peek.t = "RParen", "FunctionError",
                    "Expected closing parentheses at function invocation"), LAMBDA close :
    POk(Invoked(lhs, args.v), close.p)))

RECURSIVE parse_parameters(_, _)
\* the `while let Token::Ident(name) = &self.cur` loop of parse_function
parse_parameters(p, parameters) ==
    IF p.cur.t = "Ident"
    THEN parse_parameters(next_token(IF p.peek.t = "Comman" THEN next_token(p) ELSE p),
                          Append(parameters, p.cur.name))
    ELSE POk(parameters, p)

parse_function(p) ==
    Try(expect_peek(p, p.peek.t = "LParen", "FunctionError",
                    "Expected parentheses after fn keyword"), LAMBDA open :
    Try(parse_parameters(next_token(open.p), <<>>), LAMBDA parameters :
    Try(IF parameters.p.cur.t # "RParen"
        THEN PErr("FunctionError", "Expected closing parentheses at function declaration",
                  parameters.p)
        ELSE expect_peek(parameters.p, parameters.p.peek.t = "LBrace", "FunctionError",
                         "Expected function body"), LAMBDA brace :
    Try(parse_block(brace.p), LAMBDA body :
    POk(FunctionLit(parameters.v, body.v, <<>>), body.p)))))

\* the `else` part of parse_if, after the consequence
parse_else(p, condition, consequence) ==
    IF ~IsKeyword(p.peek, {"Else"}) THEN POk(If(condition, consequence, None), p)
    ELSE Try(expect_peek(next_token(p), next_token(p).peek.t = "LBrace", "IfError",
                         "Expected expression block after else"), LAMBDA brace :
         Try(parse_block(brace.p), LAMBDA alternative :
         POk(If(condition, consequence, Some(alternative.v)), alternative.p)))

parse_if(p) ==
    Try(parse_expression(next_token(p), Lowest), LAMBDA condition :
    Try(expect_peek(condition.p, condition.p.peek.t = "LBrace", "IfError",
                    "Expected expression block after condition"), LAMBDA brace :
    Try(parse_block(brace.p), LAMBDA consequence :
    parse_else(consequence.p, condition.v, consequence.v))))

\* one turn of the statement loops of parse_program (parser.rs:35-44) and
\* parse_block (parser.rs:262-268): the
\* statement is kept, or its error is left in self.errors; either way one
\* token is consumed before the loop goes on
push_statement(statement, statements, Loop(_, _)) ==
    IF statement.st = "panic" THEN statement
    ELSE IF statement.st = "ok"
    THEN Loop(next_token(statement.p), Append(statements, statement.v))
    ELSE Loop(next_token([statement.p EXCEPT !.errors = Append(@, statement.v)]), statements)

\* the `while` loop of parse_block
parse_block_loop(p, statements) ==
    IF p.cur.t # "RBrace" /\ p.cur.t # "EOF"
    THEN push_statement(parse_statement(p), statements, parse_block_loop)
    ELSE POk(Block(statements), p)

parse_block(p) == parse_block_loop(next_token(p), <<>>)

parse_grouped(p) ==
    Try(parse_expression(next_token(p), Lowest), LAMBDA expression :
    Try(expect_peek(expression.p, expression.p.peek.t = "RParen", "ParseError", ""),
        LAMBDA close :
    POk(expression.v, close.p)))

\* the right operand parsed one level lower, which groups equal levels to the right
parse_infix_operator_right(p, lhs) ==
    Try(parse_expression(next_token(p), cur_precedence(p) - 1), LAMBDA rhs :
    POk(Infix(p.cur.op, lhs, rhs.v), rhs.p))

parse_infix_operator(p, lhs) ==
    Try(parse_expression(next_token(p), cur_precedence(p)), LAMBDA rhs :
    POk(Infix(p.cur.op, lhs, rhs.v), rhs.p))

RECURSIVE parse_program_loop(_, _)
\* the `while self.cur != Token::EOF` loop of parse_program
parse_program_loop(p, statements) ==
    IF p.cur.t # "EOF"
    THEN push_statement(parse_statement(p), statements, parse_program_loop)
    ELSE POk(statements, p)

\* Ok(Program {statements, errors}), or the panic that ended the process
ProgramOf(done) ==
    IF done.st = "panic" THEN [st |-> "panic"]
    ELSE [st |-> "ok", statements |-> done.v, errors |-> done.p.errors]

parse_program(p) == ProgramOf(parse_program_loop(p, <<>>))

(***************************************************************************)
(* The Stack driven directly through its public operations.  env is the    *)
(* environment the documentation describes: per frame, per open scope, the *)
(* names bound in that scope with their most recent value.                  *)
(***************************************************************************)
Names == {"x", "y"}

Vals == {Integer(1), Integer(2)}

EnvGet(e, ident) ==
    LET scopes == Last(e)
        holding == {i \in 1..Len(scopes) : ident \in DOMAIN scopes[i]}
    IN IF holding = {} THEN None
       ELSE Some(scopes[CHOOSE i \in holding : \A j \in holding : j <= i][ident])

EnvBind(e, ident, val) == SetLast(e, SetLast(Last(e), MapPut(Last(Last(e)), ident, val)))

NoResult == [flow |-> "None"]

NoProgram == [st |-> "none"]

NoLexer == [position |-> 0]

InitStack ==
    /\ stack = StackNew
    /\ env = <<<<EmptyMap>>>>
    /\ heap = <<>>
    /\ build = "debug"
    /\ last = NoResult
    /\ nevals = 0
    /\ input = <<>>
    /\ program = NoProgram
    /\ pc = "run"
    /\ lexer = NoLexer
    /\ tokens = <<>>

Push ==
    /\ nevals < MaxOps
    /\ Len(scope(stack)) < MaxDepth
    /\ stack' = push(stack)
    /\ env' = SetLast(env, Append(Last(env), EmptyMap))
    /\ nevals' = nevals + 1
    /\ UNCHANGED <<heap, build, last, input, program, pc, lexer, tokens>>

Pop ==
    /\ nevals < MaxOps
    /\ Len(scope(stack)) > 1
    /\ stack' = pop(stack)
    /\ env' = SetLast(env, Front(Last(env)))
    /\ nevals' = nevals + 1
    /\ UNCHANGED <<heap, build, last, input, program, pc, lexer, tokens>>

Add ==
    \E ident \in Names, val \in Vals :
        /\ nevals < MaxOps
        /\ ident \in DOMAIN Last(stack).vars => Len(Last(stack).vars[ident]) < MaxBind
        /\ stack' = add(stack, ident, val)
        /\ env' = EnvBind(env, ident, val)
        /\ nevals' = nevals + 1
        /\ UNCHANGED <<heap, build, last, input, program, pc, lexer, tokens>>

Assign ==
    \E ident \in Names, val \in Vals :
        /\ nevals < MaxOps
        /\ stack' = assign(stack, ident, val)
        /\ env' = EnvBind(env, ident, val)
        /\ nevals' = nevals + 1
        /\ UNCHANGED <<heap, build, last, input, program, pc, lexer, tokens>>

PushFrame ==
    /\ nevals < MaxOps
    /\ Len(stack) < MaxFrames
    /\ stack' = push_frame(stack)
    /\ env' = Append(env, <<EmptyMap>>)
    /\ nevals' = nevals + 1
    /\ UNCHANGED <<heap, build, last, input, program, pc, lexer, tokens>>

PopFrame ==
    /\ nevals < MaxOps
    /\ Len(stack) > 1
    /\ stack' = pop_frame(stack)
    /\ env' = Front(env)
    /\ nevals' = nevals + 1
    /\ UNCHANGED <<heap, build, last, input, program, pc, lexer, tokens>>

NextStack == Push \/ Pop \/ Add \/ Assign \/ PushFrame \/ PopFrame

SpecStack == InitStack /\ [][NextStack]_vars

(***************************************************************************)
(* The evaluator driven as the tests drive it: one Eval, eval called on one *)
(* node after another, clear in between.                                    *)
(***************************************************************************)
Call(name, args) == Invoked(Ident(name), args)

Fn(parameters, statements, capture) == FunctionLit(parameters, Block(statements), capture)

Member(c, name) == Infix("Dot", Ident(c), Ident(name))

\* fn() { return 1; 2 }
ReturningFn == Fn(<<>>, <<Return(IntLit(1)), ExprStmt(IntLit(2))>>, <<>>)

\* fn(n) { if n < 2 { return n; } 9 }
GuardedFn ==
    Fn(<<"n">>, <<ExprStmt(If(Infix("Less", Ident("n"), IntLit(2)),
                              Block(<<Return(Ident("n"))>>), None)),
                  ExprStmt(IntLit(9))>>, <<>>)

\* fn(x) { fn(y) { x + y } }, the inner literal with the given capture list
MakeAdder(capture) ==
    Fn(<<"x">>, <<ExprStmt(Fn(<<"y">>, <<ExprStmt(Infix("Plus", Ident("x"), Ident("y")))>>,
                               capture))>>, <<>>)

\* let makeAdder = ..; let add2 = makeAdder(2); add2(40);
AdderProgram(capture) ==
    Program(<<Let("makeAdder", MakeAdder(capture)),
              Let("add2", Call("makeAdder", <<IntLit(2)>>)),
              ExprStmt(Call("add2", <<IntLit(40)>>))>>)

\* let x = 1; let k = fn() { x }; let x = 5; k();
ReboundProgram(capture) ==
    Program(<<Let("x", IntLit(1)), Let("k", Fn(<<>>, <<ExprStmt(Ident("x"))>>, capture)),
              Let("x", IntLit(5)), ExprStmt(Call("k", <<>>))>>)

\* let k = { let y = 3; fn() { y } }; k();
ClosedScopeProgram(capture) ==
    Program(<<Let("k", Block(<<Let("y", IntLit(3)),
                               ExprStmt(Fn(<<>>, <<ExprStmt(Ident("y"))>>, capture))>>)),
              ExprStmt(Call("k", <<>>))>>)

\* let c = {a = 1}; let k = fn() { c.a }; c.a = 2; k();
MutatedProgram(capture) ==
    Program(<<Let("c", CollectionLit([a |-> IntLit(1)])),
              Let("k", Fn(<<>>, <<ExprStmt(Member("c", "a"))>>, capture)),
              ExprStmt(Infix("Assign", Member("c", "a"), IntLit(2))),
              ExprStmt(Call("k", <<>>))>>)

Say(text) == ExprStmt(Call("print", <<StringLit(text)>>))

\* if { print("c"); condition } { print("t"); 1 } else { print("e"); 2 }
IfPrinting(condition, else) ==
    ExprStmt(If(Block(<<Say("c"), ExprStmt(condition)>>),
                Block(<<Say("t"), ExprStmt(IntLit(1))>>),
                IF else THEN Some(Block(<<Say("e"), ExprStmt(IntLit(2))>>)) ELSE None))

Conditions ==
    {BoolLit(TRUE), BoolLit(FALSE), IntLit(0), IntLit(1), StringLit(""), StringLit("a"),
     CollectionLit(EmptyMap)}

IfNodes == {IfPrinting(condition, else) : condition \in Conditions, else \in BOOLEAN}

\* let a = {..}; let b = {..}; a | b
UnionProgram(a, b) ==
    Program(<<Let("a", CollectionLit(a)), Let("b", CollectionLit(b)),
              ExprStmt(Infix("Pipe", Ident("a"), Ident("b")))>>)

UnionCases ==
    {[a |-> [k |-> IntLit(1), j |-> IntLit(2)], b |-> [k |-> IntLit(3), l |-> IntLit(4)]],
     [a |-> [j |-> IntLit(2)], b |-> [l |-> IntLit(4)]],
     [a |-> EmptyMap, b |-> [k |-> IntLit(3)]]}

BoolPairs == <<<<TRUE, TRUE>>, <<TRUE, FALSE>>, <<FALSE, TRUE>>, <<FALSE, FALSE>>>>

\* [x != y, ..], [x == y, ..] over every pair of Bools
BoolTable(operator) ==
    ExprStmt(VectorLit([i \in 1..Len(BoolPairs) |->
                           Infix(operator, BoolLit(BoolPairs[i][1]), BoolLit(BoolPairs[i][2]))]))

\* let c = {a = 1}; c.a = c;
SelfMember ==
    Program(<<Let("c", CollectionLit([a |-> IntLit(1)])),
              ExprStmt(Infix("Assign", Member("c", "a"), Ident("c")))>>)

Nodes ==
    IfNodes \cup {UnionProgram(c.a, c.b) : c \in UnionCases} \cup
    {BoolTable("NotEqual"), BoolTable("Equal"), SelfMember} \cup
    {Let("x", IntLit(1)), Let("y", IntLit(2)),
     ExprStmt(Ident("x")), ExprStmt(Ident("y")),
     ExprStmt(Infix("Assign", Ident("x"), IntLit(4))),
     \* blocks that introduce and shadow names, one and two levels deep
     ExprStmt(Block(<<Let("x", IntLit(7)), Let("z", IntLit(8)), ExprStmt(Ident("x"))>>)),
     ExprStmt(Block(<<Let("y", IntLit(7)),
                      ExprStmt(Block(<<Let("x", IntLit(8)), Let("y", IntLit(9)),
                                       Let("z", IntLit(3))>>)),
                      ExprStmt(Ident("y"))>>)),
     ExprStmt(Block(<<ExprStmt(Infix("PlusEqual", Ident("x"), IntLit(1))),
                      Return(Ident("x"))>>)),
     Program(<<ExprStmt(Block(<<Let("z", IntLit(1))>>)), ExprStmt(Ident("z"))>>),
     \* functions that return, and their callers
     Let("f", ReturningFn), Let("f", GuardedFn),
     Let("y", Call("f", <<>>)), Let("y", Call("f", <<IntLit(1)>>)),
     Program(<<ExprStmt(Call("f", <<>>)), ExprStmt(IntLit(7))>>),
     ExprStmt(Block(<<ExprStmt(Call("f", <<IntLit(5)>>)), ExprStmt(IntLit(7))>>)),
     \* function bodies that look at, shadow and assign the caller's names
     Let("g", Fn(<<>>, <<ExprStmt(Ident("x"))>>, <<>>)),
     Let("g", Fn(<<"y">>, <<Let("x", IntLit(5)),
                            ExprStmt(Block(<<Let("y", IntLit(6))>>)),
                            ExprStmt(Infix("Plus", Ident("x"), Ident("y")))>>, <<>>)),
     Let("g", Fn(<<"a">>, <<ExprStmt(Infix("Assign", Ident("y"), Ident("a"))),
                            Return(Ident("x"))>>, <<"x">>)),
     ExprStmt(Call("g", <<>>)), ExprStmt(Call("g", <<IntLit(3)>>)),
     ExprStmt(Call("len", <<Ident("x")>>)),
     \* closures
     AdderProgram(<<>>), AdderProgram(<<"x">>),
     ReboundProgram(<<>>), ReboundProgram(<<"x">>),
     ClosedScopeProgram(<<>>), ClosedScopeProgram(<<"y">>),
     MutatedProgram(<<>>), MutatedProgram(<<"c">>)}

Init ==
    /\ stack = StackNew
    /\ heap = <<>>
    /\ build \in {"debug", "release"}
    /\ last = NoResult
    /\ nevals = 0
    /\ env = <<>>
    /\ input = <<>>
    /\ program = NoProgram
    /\ pc = "run"
    /\ lexer = NoLexer
    /\ tokens = <<>>

\* Eval::eval on a node, the process still running
Eval ==
    \E node \in Nodes :
        /\ nevals < MaxEvals
        /\ last.flow \notin {"Panic", "Exit"}
        /\ LET ret == eval(node, [stack |-> stack, heap |-> heap, build |-> build, log |-> <<>>])
           IN /\ stack' = ret.m.stack
              /\ heap' = ret.m.heap
              /\ last' = [node |-> node, flow |-> ret.flow, val |-> ret.val, log |-> ret.m.log]
        /\ nevals' = nevals + 1
        /\ UNCHANGED <<build, env, input, program, pc, lexer, tokens>>

\* Eval::clear
Clear ==
    /\ last.flow \notin {"Panic", "Exit"}
    /\ stack # StackNew
    /\ stack' = StackNew
    /\ UNCHANGED <<heap, build, last, nevals, env, input, program, pc, lexer, tokens>>

Next == Eval \/ Clear

Spec == Init /\ [][Next]_vars

Events(kind) == {last.log[i] : i \in {j \in 1..(IF last.flow = "None" THEN 0 ELSE Len(last.log)) :
                                         last.log[j].ev = kind}}

FrameGet(frame, ident) == get(<<frame>>, ident)

FrameNames(frame) == DOMAIN frame.vars

Range(seq) == {seq[i] : i \in 1..Len(seq)}

RECURSIVE BoundIn(_)
\* the names a node can bind in the frame that evaluates it: the targets of its
\* let statements and assignments, function literals excluded
BoundIn(node) ==
    CASE node.kind = "Let" -> {node.name} \cup BoundIn(node.value)
      [] node.kind = "Return" -> BoundIn(node.value)
      [] node.kind = "ExprStmt" -> BoundIn(node.expr)
      [] node.kind \in {"Block", "Program"} ->
            UNION {BoundIn(node.statements[i]) : i \in 1..Len(node.statements)}
      [] node.kind = "Infix" ->
            (IF node.operator \in {"Assign", "PlusEqual", "MinusEqual"} /\ node.lhs.kind = "Ident"
             THEN {node.lhs.name} ELSE BoundIn(node.lhs)) \cup BoundIn(node.rhs)
      [] node.kind = "Prefix" -> BoundIn(node.operand)
      [] node.kind = "If" ->
            BoundIn(node.condition) \cup BoundIn(node.consequence)
                \cup (IF node.alternative.some THEN BoundIn(node.alternative.v) ELSE {})
      [] node.kind = "Invoked" ->
            BoundIn(node.invoked) \cup UNION {BoundIn(node.args[i]) : i \in 1..Len(node.args)}
      [] node.kind = "Indexed" -> BoundIn(node.indexee) \cup BoundIn(node.index)
      [] node.kind = "Collection" -> UNION {BoundIn(node.members[k]) : k \in DOMAIN node.members}
      [] node.kind = "Vector" ->
            UNION {BoundIn(node.elements[i]) : i \in 1..Len(node.elements)}
      [] OTHER -> {}

\* C1: a return executed in the body of a user-defined function stops at that
\* call: whenever an invocation of a Function completes without an error, the
\* Invoked expression yields Continue, never Break.
C1_ReturnStopsAtCall ==
    \A e \in Events("invoke") : e.flow \in {"Continue", "Break"} => e.flow = "Continue"

\* the block is the body of a called function: it closes when the body is done
\* and the frame is discarded before anything else is evaluated in it
IsBodyBlock(e) == e.frames > 1 /\ Len(e.before.scope) = 1

ClosureCases ==
    {[prog |-> AdderProgram(<<>>), sees |-> Integer(42)],
     [prog |-> ReboundProgram(<<>>), sees |-> Integer(1)],
     [prog |-> ClosedScopeProgram(<<>>), sees |-> Integer(3)],
     [prog |-> MutatedProgram(<<>>), sees |-> Integer(1)],
     [prog |-> MutatedProgram(<<"c">>), sees |-> Integer(1)]}

\* C3: a function reads each of its free names with the value the name had when
\* the function literal was evaluated, whatever happened to the name, its scope
\* or its value afterwards; makeAdder(2) gives a function whose add2(40) is 42.
C3_ClosureCapture ==
    \A c \in ClosureCases :
        (last.flow # "None" /\ last.node = c.prog) => (last.flow = "Continue" /\ last.val = c.sees)

\* C4: in the body of a called function a lookup succeeds only for parameters,
\* captured names, built-ins and names bound in the body, and when the call is
\* over the caller's frames are exactly what they were when the body started.
C4_FrameIsolation ==
    \A e \in Events("invoke") :
        /\ e.resolved \subseteq (BuiltinNames \cup Range(e.function.parameters)
                                    \cup DOMAIN e.function.capture \cup BoundIn(e.function.body))
        /\ e.caller_after = e.caller_before

\* a body looked up a name that only the caller's frame binds, and the call is over
C4_Witness ==
    \E e \in Events("invoke") :
        \E n \in e.missed : n \notin BuiltinNames /\ FrameGet(Last(e.caller_before), n).some

(***************************************************************************)
(* Programs and their statements evaluated one at a time (eval.rs tests)     *)
(***************************************************************************)
ProgramCases ==
    {<<Let("a", IntLit(1)), Let("b", Infix("Plus", Ident("a"), IntLit(1))), ExprStmt(Ident("b"))>>,
     <<Let("x", IntLit(3)), ExprStmt(Infix("PlusEqual", Ident("x"), IntLit(1)))>>,
     <<ExprStmt(Block(<<Let("z", IntLit(1))>>)), ExprStmt(Ident("z"))>>,
     <<ExprStmt(Call("f", <<>>)), ExprStmt(IntLit(7))>>,
     <<Let("y", Call("f", <<IntLit(1)>>)), ExprStmt(Ident("y"))>>}

RECURSIVE OneAtATime(_, _, _, _), OneStep(_, _, _, _)
\* for statement in statements { eval.eval(statement) } on one Eval, as the
\* tests of eval.rs drive it; vals are the values the calls returned
OneStep(ret, statements, i, vals) ==
    IF Aborts(ret) THEN [flow |-> ret.flow, vals |-> vals, m |-> ret.m]
    ELSE OneAtATime(statements, i + 1, ret.m, Append(vals, ret.val))

OneAtATime(statements, i, m, vals) ==
    IF i > Len(statements) THEN [flow |-> "Continue", vals |-> vals, m |-> m]
    ELSE OneStep(eval(statements[i], m), statements, i, vals)

Running == [stack |-> stack, heap |-> heap, build |-> build, log |-> <<>>]

\* the Program gave the value of its last statement and left the environment
\* the statements leave one at a time; it fails where they fail
SameOutcome(ret, one) ==
    IF Aborts(one) THEN ret.flow = one.flow
    ELSE /\ ~Aborts(ret)
         /\ ret.val = Last(one.vals)
         /\ ret.m.stack = one.m.stack
         /\ ret.m.heap = one.m.heap

\* the let statement gave the value that its name is now bound to
LetYieldsBinding(node, ret) ==
    ~Aborts(ret) => get(ret.m.stack, node.name) = Some(ret.val)

\* C12: evaluating the statements of a program one at a time on the same
\* evaluator gives the same values and the same final environment as evaluating
\* them as one Program, whose result is the value of its last statement; a let
\* statement yields the value it binds.
C12_ProgramIsStatementSequence ==
    /\ last.flow \notin {"Panic", "Exit"} =>
          \A statements \in ProgramCases :
              SameOutcome(eval(Program(statements), Running),
                          OneAtATime(statements, 1, Running, <<>>))
    /\ last.flow \notin {"Panic", "Exit"} =>
          \A node \in {n \in Nodes : n.kind = "Let"} :
              LetYieldsBinding(node, eval(node, Running))

\* what print wrote during the last evaluation, in order
PrintedTexts(log) == [i \in 1..Len(SelectSeq(log, LAMBDA e : e.ev = "print")) |->
                      SelectSeq(log, LAMBDA e : e.ev = "print")[i].text]

\* the value of a literal condition
ValueOf(condition) == eval(condition, [stack |-> StackNew, heap |-> <<>>, build |-> "debug", log |-> <<>>])

\* the truthy slot of the condition's value returns a value
Truthy(ret) == call(ret.m, ret.val, "truthy", None).res.some

\* C13: an if evaluates its condition once and then exactly one branch: the
\* consequence when the condition's truthy slot returns a value, otherwise the
\* alternative; a falsy condition without an alternative gives Unit and
\* evaluates neither branch.
C13_IfTakesOneBranch ==
    \A condition \in Conditions, else \in BOOLEAN :
        (last.flow # "None" /\ last.node = IfPrinting(condition, else)) =>
            /\ last.flow = "Continue"
            /\ IF Truthy(ValueOf(condition))
               THEN PrintedTexts(last.log) = <<"c", "t">> /\ last.val = Integer(1)
               ELSE IF else
               THEN PrintedTexts(last.log) = <<"c", "e">> /\ last.val = Integer(2)
               ELSE PrintedTexts(last.log) = <<"c">> /\ last.val = Unit

\* an if with a falsy condition and no alternative was evaluated, and so was
\* one with an alternative
C13_Witness ==
    /\ last.flow = "Continue"
    /\ \E condition \in Conditions :
          /\ ~Truthy(ValueOf(condition))
          /\ last.node = IfPrinting(condition, FALSE)
          /\ last.val = Unit

\* the members a Collection literal of integer literals denotes
Literals(members) == [k \in DOMAIN members |-> Integer(members[k].int)]

\* the members of the collection the name is bound to
MembersOf(name) == heap[get(stack, name).v.addr].members

\* C14: a | b is a new collection whose keys are the union of the two key sets;
\* a key of both maps to b's value, a key of one operand keeps that operand's
\* value, and neither a nor b is modified.
C14_UnionRightWins ==
    \A c \in UnionCases :
        (last.flow # "None" /\ last.node = UnionProgram(c.a, c.b)) =>
            /\ last.flow = "Continue"
            /\ last.val.type = "Collection"
            /\ heap[last.val.addr].members =
                  [k \in (DOMAIN c.a) \cup (DOMAIN c.b) |->
                      IF k \in DOMAIN c.b THEN Literals(c.b)[k] ELSE Literals(c.a)[k]]
            /\ get(stack, "a").some =>
                  /\ MembersOf("a") = Literals(c.a)
                  /\ MembersOf("b") = Literals(c.b)
                  /\ last.val \notin {get(stack, "a").v, get(stack, "b").v}

\* C15: for Bool values x and y, x != y is true exactly when x and y differ,
\* and for every pair the result of != is the negation of the result of ==.
C15_BoolNotEqual ==
    /\ (last.flow # "None" /\ last.node = BoolTable("NotEqual")) =>
          /\ last.flow = "Continue"
          /\ last.val = Vector([i \in 1..Len(BoolPairs) |->
                                   Bool(BoolPairs[i][1] # BoolPairs[i][2])])
    /\ last.flow \notin {"Panic", "Exit"} =>
          \A i \in 1..Len(BoolPairs) :
              eval(BoolTable("NotEqual"), Running).val.elements[i].b
                  = ~eval(BoolTable("Equal"), Running).val.elements[i].b

\* C16: a Str is truthy if and only if it is non-empty: an if whose condition is
\* a Str evaluates the consequence for a non-empty string and the alternative
\* (or yields Unit) for the empty string.
C16_StrTruthyIffNonEmpty ==
    \A condition \in {c \in Conditions : c.kind = "String"}, else \in BOOLEAN :
        (last.flow # "None" /\ last.node = IfPrinting(condition, else)) =>
            /\ last.flow = "Continue"
            /\ IF condition.string # ""
               THEN PrintedTexts(last.log) = <<"c", "t">> /\ last.val = Integer(1)
               ELSE IF else
               THEN PrintedTexts(last.log) = <<"c", "e">> /\ last.val = Integer(2)
               ELSE PrintedTexts(last.log) = <<"c">> /\ last.val = Unit

\* one expression for a value of each kind
KindCases ==
    {IntLit(1), BoolLit(TRUE), StringLit("a"), Block(<<>>), VectorLit(<<IntLit(1)>>),
     CollectionLit(EmptyMap), Fn(<<>>, <<>>, <<>>), Ident("len")}

\* C17: every value the evaluator produces carries both a truthy and a str slot
\* in its method table, so print finds a str slot on an argument of any kind and
\* returns Unit.
C17_CompleteMethodTables ==
    /\ last.flow \in {"Continue", "Break"} => (slot(last.val, "truthy") /\ slot(last.val, "str"))
    /\ last.flow \notin {"Panic", "Exit"} =>
          \A e \in KindCases :
              /\ eval(Call("print", <<e>>), Running).flow = "Continue"
              /\ eval(Call("print", <<e>>), Running).val = Unit

\* the collections a value refers to directly
RECURSIVE Refs(_)
Refs(v) ==
    CASE v.type = "Collection" -> {v.addr}
      [] v.type = "Vector" -> UNION {Refs(v.elements[i]) : i \in 1..Len(v.elements)}
      [] v.type = "Function" -> UNION {Refs(v.capture[k]) : k \in DOMAIN v.capture}
      [] OTHER -> {}

\* the collections the members of the collection at addr refer to
MemberRefs(addr) == UNION {Refs(heap[addr].members[k]) : k \in DOMAIN heap[addr].members}

RECURSIVE Reach(_, _)
\* the collections reachable from the set in at most n steps
Reach(set, n) ==
    IF n = 0 THEN set ELSE Reach(set \cup UNION {MemberRefs(a) : a \in set}, n - 1)

\* C18: no sequence of language operations produces a reference cycle: the
\* members of a collection never contain, directly or transitively, that same
\* collection.
C18_NoReferenceCycle ==
    \A addr \in 1..Len(heap) : addr \notin Reach(MemberRefs(addr), Len(heap))

\* blocks with the flow and value each must give; nope is a name nothing binds
BlockCases ==
    {[block |-> Block(<<>>), flow |-> "Continue", val |-> Unit],
     [block |-> Block(<<Let("x", IntLit(7)), ExprStmt(Ident("x"))>>),
      flow |-> "Continue", val |-> Integer(7)],
     [block |-> Block(<<Return(IntLit(1)), ExprStmt(IntLit(2))>>),
      flow |-> "Break", val |-> Integer(1)],
     [block |-> Block(<<ExprStmt(Block(<<Return(IntLit(1))>>)), ExprStmt(IntLit(2))>>),
      flow |-> "Break", val |-> Integer(1)],
     [block |-> Block(<<Let("x", IntLit(7)), ExprStmt(Ident("nope"))>>),
      flow |-> "Err", val |-> Unit],
     [block |-> Block(<<ExprStmt(Block(<<ExprStmt(Ident("nope"))>>))>>),
      flow |-> "Err", val |-> Unit]}

OpenScopes(s) == Len(Last(s).scope)

\* the block returned the flow (and, unless it failed, the value) of the case
\* and left as many scopes open as there were
BlockBalanced(case, ret, m) ==
    /\ ret.flow = case.flow
    /\ ret.flow # "Err" => ret.val = case.val
    /\ Len(ret.m.stack) = Len(m.stack)
    /\ OpenScopes(ret.m.stack) = OpenScopes(m.stack)

\* C21: evaluating a Block pushes one scope and pops it on every exit path
\* (normal completion, a Break, an evaluation error), so the frame has as many
\* open scopes after as before; the value is that of the last statement, Unit
\* for the empty block, and a Break leaves the block unchanged.
C21_BlockPopsOnEveryPath ==
    last.flow \notin {"Panic", "Exit"} =>
        \A case \in BlockCases : BlockBalanced(case, eval(case.block, Running), Running)

\* { print(text); value }
Saying(text, value) == Block(<<Say(text), value>>)

\* fn(p, q) { print("body"); 9 }
TwoParameters == Fn(<<"p", "q">>, <<Say("body"), ExprStmt(IntLit(9))>>, <<>>)

\* callee(first, second), each part printing when it is evaluated
InvokeSaying(callee, first, second) ==
    Invoked(Saying("callee", callee), <<Saying("1", first), Saying("2", second)>>)

\* invocations with what each must print and return
InvokeCases ==
    {[call |-> InvokeSaying(ExprStmt(TwoParameters), ExprStmt(IntLit(1)), ExprStmt(IntLit(2))),
      says |-> <<"callee", "1", "2", "body">>, flow |-> "Continue", val |-> Integer(9)],
     [call |-> InvokeSaying(ExprStmt(TwoParameters), Return(IntLit(5)), ExprStmt(IntLit(2))),
      says |-> <<"callee", "1">>, flow |-> "Break", val |-> Integer(5)],
     [call |-> InvokeSaying(ExprStmt(TwoParameters), ExprStmt(IntLit(1)), Return(IntLit(6))),
      says |-> <<"callee", "1", "2">>, flow |-> "Break", val |-> Integer(6)],
     [call |-> InvokeSaying(Return(IntLit(4)), ExprStmt(IntLit(1)), ExprStmt(IntLit(2))),
      says |-> <<"callee">>, flow |-> "Break", val |-> Integer(4)]}

InvokedAs(case, ret) ==
    /\ PrintedTexts(ret.m.log) = case.says
    /\ ret.flow = case.flow
    /\ ret.val = case.val

\* C22: an invocation evaluates the callee and then the arguments from left to
\* right, and a Break produced by the callee or an argument short-circuits it:
\* the remaining arguments are not evaluated, the function is not called and
\* that Break is the result.
C22_BreakShortCircuitsInvocation ==
    last.flow \notin {"Panic", "Exit"} =>
        \A case \in InvokeCases : InvokedAs(case, eval(case.call, Running))

\* {a = 1}
OneMember == CollectionLit([a |-> IntLit(1)])

\* member accesses with what each must give; on "Err" only the flow is compared
AccessCases ==
    {[prog |-> <<ExprStmt(Infix("Dot", OneMember, Ident("a")))>>,
      flow |-> "Continue", val |-> Integer(1)],
     [prog |-> <<Let("c", OneMember), ExprStmt(Member("c", "a"))>>,
      flow |-> "Continue", val |-> Integer(1)],
     [prog |-> <<Let("c", OneMember), ExprStmt(Member("c", "z"))>>,
      flow |-> "Err", val |-> Unit],
     [prog |-> <<Let("n", IntLit(3)), ExprStmt(Member("n", "a"))>>,
      flow |-> "Err", val |-> Unit],
     [prog |-> <<ExprStmt(Infix("Dot", IntLit(3), Ident("a")))>>,
      flow |-> "Err", val |-> Unit],
     [prog |-> <<ExprStmt(Infix("Dot", Invoked(Fn(<<>>, <<ExprStmt(OneMember)>>, <<>>), <<>>),
                                Ident("a")))>>,
      flow |-> "Continue", val |-> Integer(1)],
     [prog |-> <<Let("o", CollectionLit([b |-> CollectionLit([c |-> IntLit(5)])])),
                 ExprStmt(Infix("Dot", Member("o", "b"), Ident("c")))>>,
      flow |-> "Continue", val |-> Integer(5)],
     [prog |-> <<Let("c", OneMember),
                 ExprStmt(Infix("Dot", Ident("c"), Call("print", <<StringLit("rhs")>>)))>>,
      flow |-> "Err", val |-> Unit]}

AccessedAs(case, ret) ==
    /\ ret.flow = case.flow
    /\ ret.flow # "Err" => ret.val = case.val
    /\ PrintedTexts(ret.m.log) = <<>>

\* C23: lhs.m gives, for every expression lhs that evaluates to a Collection
\* (a name, a literal, a call result, another access), the value mapped to m, or
\* an error when there is no member m; an error when lhs is of another kind;
\* the right-hand side is never evaluated.
C23_MemberAccess ==
    last.flow \notin {"Panic", "Exit"} =>
        \A case \in AccessCases : AccessedAs(case, eval(Program(case.prog), Running))

\* {a = 1, b = 2}
TwoMembers == CollectionLit([a |-> IntLit(1), b |-> IntLit(2)])

\* let c = {a = 1, b = 2}; c.m = rhs, with the flow and value the assignment must
\* give and the members c must have afterwards
AssignCases ==
    {[m |-> "a", rhs |-> IntLit(5), flow |-> "Continue", val |-> Integer(5),
      members |-> [a |-> Integer(5), b |-> Integer(2)]],
     [m |-> "z", rhs |-> IntLit(5), flow |-> "Continue", val |-> Integer(5),
      members |-> [a |-> Integer(1), b |-> Integer(2), z |-> Integer(5)]],
     [m |-> "a", rhs |-> Ident("nope"), flow |-> "Err", val |-> Unit,
      members |-> [a |-> Integer(1), b |-> Integer(2)]],
     [m |-> "a", rhs |-> Block(<<Return(IntLit(9))>>), flow |-> "Break", val |-> Integer(9),
      members |-> [a |-> Integer(1), b |-> Integer(2)]]}

AssignProgram(case) ==
    Program(<<Let("c", TwoMembers), ExprStmt(Infix("Assign", Member("c", case.m), case.rhs))>>)

\* the collection the name c is bound to after the evaluation
CellOf(ret) == ret.m.heap[get(ret.m.stack, "c").v.addr]

AssignedAs(case, ret) ==
    /\ ret.flow = case.flow
    /\ ret.flow # "Err" => ret.val = case.val
    /\ CellOf(ret).members = case.members
    /\ CellOf(ret).vt_members = [a |-> Integer(1), b |-> Integer(2)]
    /\ ret.flow = "Continue" =>
          /\ eval(Member("c", case.m), ret.m).flow = "Continue"
          /\ eval(Member("c", case.m), ret.m).val = case.val

\* C24: c.m = v installs a new members map equal to the old one with m mapped
\* to v: afterwards c.m yields v, every other member is unchanged, the map
\* installed before is not modified, the value of the expression is v, and when
\* the right-hand side fails or breaks the collection is left unchanged.
C24_MemberAssignCopies ==
    /\ last.flow \notin {"Panic", "Exit"} =>
          \A case \in AssignCases : AssignedAs(case, eval(AssignProgram(case), Running))
    /\ (last.flow # "None" /\ last.node = MutatedProgram(<<"c">>)) =>
          /\ last.flow = "Continue"
          /\ last.val = Integer(2)
          /\ \E addr \in 1..Len(heap) :
                /\ heap[addr].members = [a |-> Integer(2)]
                /\ heap[addr].vt_members = [a |-> Integer(1)]

\* let c = {a = 1}; let k = fn() { c.a }; c.a = 2; k() has been evaluated: the
\* collection has its new map and the map it was created with still exists
C24_Witness ==
    /\ last.flow = "Continue"
    /\ last.node = MutatedProgram(<<"c">>)
    /\ \E addr \in 1..Len(heap) :
          heap[addr].members = [a |-> Integer(2)] /\ heap[addr].vt_members = [a |-> Integer(1)]

\* operands as the language can write them: 0, 1, i32::MAX, -1 and i32::MIN
MinusOne == Infix("Minus", IntLit(0), IntLit(1))

Operands ==
    {IntLit(0), IntLit(1), IntLit(I32Max), MinusOne,
     Infix("Minus", Infix("Minus", IntLit(0), IntLit(I32Max)), IntLit(1))}

ArithmeticOperators == {"Plus", "Minus", "Multiply", "Divide"}

ComparisonOperators == {"Equal", "NotEqual", "Less", "LessOrEqual", "Greater", "GreaterOrEqual"}

\* C25: every Integer slot (the four arithmetic ones and the six comparisons)
\* returns a value or absence for every pair of i32 operands, division by zero
\* and results outside the i32 range included, and never aborts the
\* interpreter; a non-Integer right operand gives absence, reported as an error.
C25_IntegerSlotsNeverAbort ==
    last.flow \notin {"Panic", "Exit"} =>
        /\ \A op \in ArithmeticOperators \cup ComparisonOperators, x \in Operands, y \in Operands :
              eval(Infix(op, x, y), Running).flow \in {"Continue", "Err"}
        /\ \A op \in ArithmeticOperators \cup ComparisonOperators :
              eval(Infix(op, IntLit(1), BoolLit(TRUE)), Running).flow = "Err"

\* calls that fail before the body, in the body, in a block of the body and in
\* a call made by the body, and calls that return or break
FrameCases ==
    {Call("len", <<>>),
     Invoked(IntLit(3), <<>>),
     Invoked(Fn(<<"p">>, <<ExprStmt(Ident("p"))>>, <<>>), <<>>),
     Invoked(Fn(<<"p">>, <<ExprStmt(Ident("p"))>>, <<>>), <<IntLit(1)>>),
     Invoked(Fn(<<>>, <<Return(IntLit(1))>>, <<>>), <<>>),
     Invoked(Fn(<<>>, <<ExprStmt(Ident("nope"))>>, <<>>), <<>>),
     Invoked(Fn(<<>>, <<ExprStmt(Block(<<ExprStmt(Ident("nope"))>>))>>, <<>>), <<>>),
     Invoked(Fn(<<>>, <<ExprStmt(Invoked(Fn(<<>>, <<ExprStmt(Ident("nope"))>>, <<>>), <<>>))>>,
                <<>>), <<>>)}

AllOpen(s) == \A i \in 1..Len(s) : Len(s[i].scope) >= 1

\* C27: the environment always has at least one frame and the current frame at
\* least one open scope, and every call of eval, whether it returns a value, a
\* Break or an error (arity mismatch, non-function callee, error in a function
\* body), returns with the number of frames it started with.
C27_FramesBalanced ==
    /\ Len(stack) = 1
    /\ AllOpen(stack)
    /\ \A e \in Events("invoke") :
          /\ Len(e.caller_before) >= 1
          /\ Len(e.caller_after) = Len(e.caller_before)
          /\ AllOpen(e.caller_after)
    /\ \A e \in Events("block") : Len(e.inner.scope) >= 2 /\ Len(e.after.scope) >= 1
    /\ \A e \in Events("get") : e.frames >= 1
    /\ last.flow \notin {"Panic", "Exit"} =>
          \A case \in FrameCases :
              /\ eval(case, Running).flow \in {"Continue", "Break", "Err"}
              /\ Len(eval(case, Running).m.stack) = Len(stack)
              /\ AllOpen(eval(case, Running).m.stack)

\* a call whose body failed has returned to the top frame
C27_Witness ==
    /\ last.flow = "Err"
    /\ Len(stack) = 1
    /\ \E e \in Events("invoke") : e.flow = "Err" /\ Len(e.caller_after) = 1

\* let c = first; let d = second; c.m = 7; c op d, with the members the result
\* must have
SetOperatorCases ==
    {[first |-> [a |-> IntLit(1)], second |-> [b |-> IntLit(2)], m |-> "a", op |-> "Pipe",
      members |-> [a |-> Integer(7), b |-> Integer(2)]],
     [first |-> [a |-> IntLit(1)], second |-> [b |-> IntLit(2)], m |-> "z", op |-> "Pipe",
      members |-> [a |-> Integer(1), b |-> Integer(2), z |-> Integer(7)]],
     [first |-> [a |-> IntLit(1)], second |-> [a |-> IntLit(2)], m |-> "a", op |-> "Ampersand",
      members |-> [a |-> Integer(7)]],
     [first |-> [a |-> IntLit(1)], second |-> [z |-> IntLit(2)], m |-> "z", op |-> "Ampersand",
      members |-> [z |-> Integer(7)]]}

SetOperatorProgram(case) ==
    Program(<<Let("c", CollectionLit(case.first)), Let("d", CollectionLit(case.second)),
              ExprStmt(Infix("Assign", Member("c", case.m), IntLit(7))),
              ExprStmt(Infix(case.op, Ident("c"), Ident("d")))>>)

\* the set operator gave a collection with the members of the case, and c.m
\* reads as the assigned value
ComputedFromCurrent(case, ret) ==
    /\ ret.flow = "Continue"
    /\ ret.val.type = "Collection"
    /\ ret.m.heap[ret.val.addr].members = case.members
    /\ eval(Member("c", case.m), ret.m).val = Integer(7)

\* C28: after c.m = v every operation on c observes the updated members: c | d
\* and c & d compute their result from the members that c.m reads after the
\* assignment, not from the members c was created with.
C28_SetOperatorsSeeAssignment ==
    last.flow \notin {"Panic", "Exit"} =>
        \A case \in SetOperatorCases :
            ComputedFromCurrent(case, eval(SetOperatorProgram(case), Running))

\* x = 5, x += 2, x -= 2 with the value x then has, starting from x = 1
BlockAssignments ==
    {[operator |-> "Assign", rhs |-> IntLit(5), val |-> Integer(5)],
     [operator |-> "PlusEqual", rhs |-> IntLit(2), val |-> Integer(3)],
     [operator |-> "MinusEqual", rhs |-> IntLit(2), val |-> Integer(-1)]}

\* { x op rhs; x }
AssigningBlock(a) ==
    Block(<<ExprStmt(Infix(a.operator, Ident("x"), a.rhs)), ExprStmt(Ident("x"))>>)

\* let x = 1; the block, x bound by let in the enclosing scope
UnderLet(a) == Program(<<Let("x", IntLit(1)), ExprStmt(AssigningBlock(a))>>)

\* let x = 1; the block; x
AfterLet(a) ==
    Program(<<Let("x", IntLit(1)), ExprStmt(AssigningBlock(a)), ExprStmt(Ident("x"))>>)

\* fn(x) { the block; x }(1), x bound as parameter of the enclosing function
AfterParameter(a) ==
    Invoked(Fn(<<"x">>, <<ExprStmt(AssigningBlock(a)), ExprStmt(Ident("x"))>>, <<>>),
            <<IntLit(1)>>)

Yields(ret, val) == ret.flow = "Continue" /\ ret.val = val

SEMI == TPunct("Semicolon")

LP == TPunct("LParen")

RP == TPunct("RParen")

Op(op) == TOperator(op)

\* `a op1 b op2 c;` and its two parenthesised forms
Chain(op1, op2) == <<TIdent("a"), Op(op1), TIdent("b"), Op(op2), TIdent("c"), SEMI>>

ChainLeft(op1, op2) == <<LP, TIdent("a"), Op(op1), TIdent("b"), RP, Op(op2), TIdent("c"), SEMI>>

ChainRight(op1, op2) == <<TIdent("a"), Op(op1), LP, TIdent("b"), Op(op2), TIdent("c"), RP, SEMI>>

\* inputs with a prefix operator, a call or a group, each with the fully
\* parenthesised form the precedence table dictates
PrecedenceCases ==
    {[text |-> <<TInt(1), Op("Plus"), TInt(2), Op("Multiply"), TInt(3)>>,
      paren |-> <<TInt(1), Op("Plus"), LP, TInt(2), Op("Multiply"), TInt(3), RP>>],
     [text |-> <<Op("Bang"), Op("Minus"), TIdent("x")>>,
      paren |-> <<Op("Bang"), LP, Op("Minus"), TIdent("x"), RP>>],
     [text |-> <<TIdent("f"), LP, TInt(1), TPunct("Comman"), TInt(2), RP, Op("Plus"), TInt(3)>>,
      paren |-> <<LP, TIdent("f"), LP, TInt(1), TPunct("Comman"), TInt(2), RP, RP, Op("Plus"),
                  TInt(3)>>],
     [text |-> <<Op("Minus"), TIdent("a"), Op("Multiply"), TIdent("b")>>,
      paren |-> <<LP, Op("Minus"), TIdent("a"), RP, Op("Multiply"), TIdent("b")>>],
     [text |-> <<Op("Minus"), TIdent("f"), LP, TInt(1), RP>>,
      paren |-> <<Op("Minus"), LP, TIdent("f"), LP, TInt(1), RP, RP>>],
     [text |-> <<TIdent("a"), Op("Multiply"), TIdent("f"), LP, TInt(1), RP>>,
      paren |-> <<TIdent("a"), Op("Multiply"), LP, TIdent("f"), LP, TInt(1), RP, RP>>],
     [text |-> <<Op("Bang"), TIdent("a"), Op("Equal"), TIdent("b")>>,
      paren |-> <<LP, Op("Bang"), TIdent("a"), RP, Op("Equal"), TIdent("b")>>]}

\* 1 * (2 + 3);
GroupedInput == <<TInt(1), Op("Multiply"), LP, TInt(2), Op("Plus"), TInt(3), RP, SEMI>>

\* statements that fail to parse (without their closing semicolon) and
\* statements that parse
BadStatements ==
    {<<TKeyword("Let"), TInt(5), Op("Assign"), TInt(3)>>,
     <<TKeyword("Let"), TIdent("y")>>,
     <<TKeyword("Return"), TInt(1), TInt(2)>>}

GoodStatements ==
    {<<TIdent("x"), SEMI>>,
     <<TKeyword("Let"), TIdent("z"), Op("Assign"), TInt(1), SEMI, TIdent("z"), SEMI>>}

RecoveryInputs == {bad \o <<SEMI>> \o good : bad \in BadStatements, good \in GoodStatements}

\* the input of test_statements (parser.rs:427-452)
TestInput ==
    <<TIdent("flix"), TPunct("Semicolon"), TInt(50), TPunct("Semicolon"), TKeyword("Let"),
      TIdent("x"), TOperator("Assign"), TInt(0), TPunct("Semicolon"), TKeyword("Let"),
      TIdent("y"), TOperator("Assign"), TInt(1), TOperator("Plus"), TInt(2),
      TPunct("Semicolon"), TKeyword("Let"), TIdent("yes"), TOperator("Assign"),
      TOperator("Bang"), TKeyword("False"), TPunct("Semicolon"), TIdent("x"),
      TOperator("Assign"), TInt(3), TPunct("Semicolon"), TKeyword("Let"), TIdent("a"),
      TOperator("Assign"), TIdent("b"), TOperator("Assign"), TIdent("c"), TOperator("Assign"),
      TKeyword("False"), TPunct("Semicolon"), TIdent("x"), TOperator("Assign"), TInt(1),
      TOperator("Multiply"), TPunct("LParen"), TInt(2), TOperator("Plus"), TInt(3),
      TPunct("RParen"), TPunct("Semicolon"), TIdent("x"), TOperator("Assign"),
      TPunct("LBrace"), TKeyword("Let"), TIdent("y"), TOperator("Assign"), TInt(1),
      TOperator("Plus"), TInt(2), TPunct("Semicolon"), TIdent("y"), TPunct("RBrace"),
      TPunct("Semicolon"), TIdent("x"), TOperator("Assign"), TKeyword("If"), TIdent("x"),
      TOperator("Equal"), TIdent("y"), TPunct("LBrace"), TKeyword("Let"), TIdent("z"),
      TOperator("Assign"), TInt(1), TOperator("Plus"), TInt(2), TPunct("Semicolon"),
      TIdent("z"), TPunct("RBrace"), TKeyword("Else"), TPunct("LBrace"), TIdent("y"),
      TPunct("RBrace"), TPunct("Semicolon"), TKeyword("Let"), TIdent("add"),
      TOperator("Assign"), TKeyword("Function"), TPunct("LParen"), TIdent("a"),
      TPunct("Comman"), TIdent("b"), TPunct("RParen"), TPunct("LBrace"), TIdent("a"),
      TOperator("Plus"), TIdent("b"), TPunct("RBrace"), TPunct("Semicolon"), TKeyword("Let"),
      TIdent("hello"), TOperator("Assign"), TKeyword("Function"), TPunct("LParen"),
      TPunct("RParen"), TPunct("LBrace"), TPunct("RBrace"), TPunct("Semicolon"),
      TKeyword("Let"), TIdent("boo"), TOperator("Assign"), TKeyword("Function"),
      TPunct("LParen"), TIdent("a"), TPunct("RParen"), TPunct("LBrace"), TPunct("RBrace"),
      TPunct("Semicolon"), TKeyword("Let"), TIdent("moo"), TOperator("Assign"),
      TKeyword("Function"), TPunct("LParen"), TIdent("a"), TPunct("RParen"), TPunct("LBrace"),
      TIdent("a"), TPunct("RBrace"), TPunct("LParen"), TInt(1), TPunct("RParen"),
      TPunct("Semicolon"), TKeyword("Let"), TIdent("moo"), TOperator("Assign"), TIdent("boo"),
      TPunct("LParen"), TInt(1), TOperator("Plus"), TInt(2), TPunct("RParen"),
      TPunct("Semicolon")>>

OnePlusTwo == Infix("Plus", IntLit(1), IntLit(2))

\* the statements test_statements expects (parser.rs:454-608)
TestExpected ==
    <<ExprStmt(Ident("flix")),
      ExprStmt(IntLit(50)),
      Let("x", IntLit(0)),
      Let("y", OnePlusTwo),
      Let("yes", Prefix("Bang", BoolLit(FALSE))),
      ExprStmt(Infix("Assign", Ident("x"), IntLit(3))),
      Let("a", Infix("Assign", Infix("Assign", Ident("b"), Ident("c")), BoolLit(FALSE))),
      ExprStmt(Infix("Assign", Ident("x"),
                     Infix("Multiply", IntLit(1), Infix("Plus", IntLit(2), IntLit(3))))),
      ExprStmt(Infix("Assign", Ident("x"),
                     Block(<<Let("y", OnePlusTwo), ExprStmt(Ident("y"))>>))),
      ExprStmt(Infix("Assign", Ident("x"),
                     If(Infix("Equal", Ident("x"), Ident("y")),
                        Block(<<Let("z", OnePlusTwo), ExprStmt(Ident("z"))>>),
                        Some(Block(<<ExprStmt(Ident("y"))>>))))),
      Let("add", FunctionLit(<<"a", "b">>,
                             Block(<<ExprStmt(Infix("Plus", Ident("a"), Ident("b")))>>), <<>>)),
      Let("hello", FunctionLit(<<>>, Block(<<>>), <<>>)),
      Let("boo", FunctionLit(<<"a">>, Block(<<>>), <<>>)),
      Let("moo", Invoked(FunctionLit(<<"a">>, Block(<<ExprStmt(Ident("a"))>>), <<>>),
                         <<IntLit(1)>>)),
      Let("moo", Invoked(Ident("boo"), <<OnePlusTwo>>))>>

Alphabet ==
    {TIdent("a"), TInt(1), Op("Assign"), Op("Plus"), Op("Multiply"), Op("Minus"), Op("Dot"),
     LP, RP, SEMI, TPunct("LBrace"), TPunct("RBrace"), TPunct("Comman"), TPunct("Illegal"),
     TKeyword("Let"), TKeyword("Function"), TKeyword("If"), TKeyword("Else"),
     TKeyword("Return"), TKeyword("True")}

ShortInputs == UNION {[1..n -> Alphabet] : n \in 0..MaxTokens}

Inputs ==
    ShortInputs \cup RecoveryInputs \cup {TestInput, GroupedInput}
        \cup {Chain(op1, op2) : op1 \in InfixOperators, op2 \in InfixOperators}
        \cup {c.text : c \in PrecedenceCases}

Parse(toks) == parse_program(ParserNew(toks))

InitParse ==
    /\ input \in Inputs
    /\ program = NoProgram
    /\ stack = StackNew
    /\ heap = <<>>
    /\ build = "debug"
    /\ last = NoResult
    /\ nevals = 0
    /\ env = <<>>
    /\ pc = "run"
    /\ lexer = NoLexer
    /\ tokens = <<>>

ParseProgram ==
    /\ program.st = "none"
    /\ program' = Parse(input)
    /\ UNCHANGED <<stack, heap, build, last, nevals, env, input, pc, lexer, tokens>>

NextParse == ParseProgram

SpecParse == InitParse /\ [][NextParse]_vars

Parsed == program.st # "none"

\* tokens of the alphabet that cannot start an expression or a statement
NonStarters ==
    {Op("Assign"), Op("Plus"), Op("Multiply"), Op("Dot"), RP, TPunct("RBrace"),
     TPunct("Comman"), TPunct("Illegal"), TKeyword("Else")}

\* C6: for every token stream parse_program returns a Program; a token that
\* cannot start an expression never makes the parser abort or panic.
C6_ParserNeverPanics ==
    Parsed =>
        /\ program.st = "ok"
        /\ (Len(input) > 0 /\ input[1] \in NonStarters) => Len(program.errors) > 0

\* C7: after a statement fails to parse there is one error for it and parsing
\* resumes with the first token after the failed statement's end: the
\* statements of the program are those of the text that follows it.
C7_ResumesAtBoundary ==
    \A bad \in BadStatements, good \in GoodStatements :
        (Parsed /\ input = bad \o <<SEMI>> \o good) =>
            /\ program.st = "ok"
            /\ Len(program.errors) = 1
            /\ program.statements = Parse(good).statements

AssignChain == Chain("Assign", "Assign")

\* C8 as stated: `a = b = c` parses as `a = (b = c)`
C8_AssignGroupsRight ==
    (Parsed /\ input = AssignChain) =>
        /\ program.st = "ok"
        /\ program.statements =
              <<ExprStmt(Infix("Assign", Ident("a"), Infix("Assign", Ident("b"), Ident("c"))))>>
        /\ program.statements = Parse(ChainRight("Assign", "Assign")).statements

\* C8 as amended: `a = b = c` parses to the same tree as `(a = b) = c`,
\* Infix(=, Infix(=, a, b), c), with no error
C8_AssignGroupsLeft ==
    (Parsed /\ input = AssignChain) =>
        /\ program.st = "ok"
        /\ program.errors = <<>>
        /\ program.statements =
              <<ExprStmt(Infix("Assign", Infix("Assign", Ident("a"), Ident("b")), Ident("c")))>>
        /\ program.statements = Parse(ChainLeft("Assign", "Assign")).statements

C8_Witness == input = AssignChain /\ program.st = "ok"

\* the levels of the precedence table as the documentation lists them
TableLevel(op) ==
    CASE op = "Assign" -> 1
      [] op \in {"Equal", "NotEqual"} -> 2
      [] op \in {"Less", "LessOrEqual", "Greater", "GreaterOrEqual"} -> 3
      [] op \in {"Plus", "Minus"} -> 4
      [] op \in {"Multiply", "Divide"} -> 5

\* C9: a chain of infix operators of one precedence level groups to the left,
\* `=` included, and the input of test_statements parses to the statements the
\* test expects (with Infix(=, Infix(=, b, c), false) for `let a = b = c = false;`)
\* and an empty error list.
C9_EqualLevelGroupsLeft ==
    /\ \A op1 \in InfixOperators, op2 \in InfixOperators :
          (Parsed /\ input = Chain(op1, op2) /\ TableLevel(op1) = TableLevel(op2)) =>
              program = [st |-> "ok", errors |-> <<>>,
                         statements |-> <<ExprStmt(Infix(op2, Infix(op1, Ident("a"), Ident("b")),
                                                         Ident("c")))>>]
    /\ (Parsed /\ input = TestInput) =>
          program = [st |-> "ok", errors |-> <<>>, statements |-> TestExpected]

C9_Witness == input = TestInput /\ program.st = "ok" /\ Len(program.statements) = 15

\* C10: two operators of different levels parse as the fully parenthesised form
\* the table dictates, in either order of appearance; so do prefix operators
\* and calls, and a parenthesised group keeps its place.
C10_PrecedenceTable ==
    /\ \A op1 \in InfixOperators, op2 \in InfixOperators :
          (Parsed /\ input = Chain(op1, op2) /\ TableLevel(op1) # TableLevel(op2)) =>
              /\ program.st = "ok" /\ program.errors = <<>>
              /\ program.statements =
                    Parse(IF TableLevel(op1) > TableLevel(op2) THEN ChainLeft(op1, op2)
                          ELSE ChainRight(op1, op2)).statements
              /\ program.statements =
                    <<ExprStmt(IF TableLevel(op1) > TableLevel(op2)
                               THEN Infix(op2, Infix(op1, Ident("a"), Ident("b")), Ident("c"))
                               ELSE Infix(op1, Ident("a"), Infix(op2, Ident("b"), Ident("c"))))>>
    /\ \A c \in PrecedenceCases :
          (Parsed /\ input = c.text) =>
              /\ program.st = "ok" /\ program.errors = <<>>
              /\ program = Parse(c.paren)
    /\ (Parsed /\ input = <<Op("Bang"), Op("Minus"), TIdent("x")>>) =>
          program.statements = <<ExprStmt(Prefix("Bang", Prefix("Minus", Ident("x"))))>>
    /\ (Parsed /\ input = GroupedInput) =>
          program.statements =
              <<ExprStmt(Infix("Multiply", IntLit(1), Infix("Plus", IntLit(2), IntLit(3))))>>

C10_Witness ==
    /\ input = Chain("Multiply", "Plus")
    /\ program.st = "ok"
    /\ program.statements =
          <<ExprStmt(Infix("Plus", Infix("Multiply", Ident("a"), Ident("b")), Ident("c")))>>

(***************************************************************************)
(* The REPL (bin/repl.rs): main reads lines until the process ends.  pc is  *)
(* where the process is: in the loop, returned from main, ended by          *)
(* process::exit, or aborted by a panic.  last.log is what was printed.     *)
(***************************************************************************)
Chars(word) == [i \in 1..Len(word) |-> word[i]]

Lines ==
    {<<>>,
     <<"1", ";">>,
     <<"x">>,
     <<"l", "e", "t", " ", "a", " ", "=", " ", "2", ";">>,
     <<"l", "e", "t", " ", "5">>,
     <<"e", "x", "i", "t", "(", ")">>,
     <<")">>,
     <<"1", "/", "0">>,
     <<"9", "9", "9", "9", "9", "9", "9", "9", "9", "9">>}

RECURSIVE LexAll(_, _), LexStep(_, _)
\* the tokens the parser pulls from the lexer, up to the first EOF
LexStep(r, acc) ==
    IF r.st = "panic" THEN [st |-> "panic"]
    ELSE IF r.tok = EOF THEN [st |-> "ok", v |-> acc]
    ELSE LexAll(r.l, Append(acc, r.tok))

LexAll(l, acc) == LexStep(Lexer_next_token(l), acc)

Printed(kind, what) == [kind |-> kind, what |-> what]

\* lines 34-42 of main: the outcome of runtime.eval(..)
ReplPrint(ret, prog) ==
    CASE ret.flow \in {"Continue", "Break"} ->
            [pc |-> "loop", flow |-> ret.flow, out |-> <<Printed("value", ret.val)>>,
             program |-> prog]
      [] ret.flow = "Err" ->
            [pc |-> "returned", flow |-> ret.flow, out |-> <<Printed("error", ret.val.msg)>>,
             program |-> prog]
      [] ret.flow = "Exit" -> [pc |-> "exited", flow |-> ret.flow, out |-> <<>>, program |-> prog]
      [] ret.flow = "Panic" -> [pc |-> "aborted", flow |-> ret.flow, out |-> <<>>, program |-> prog]

\* lines 24-34 of main: a new Eval for the parsed program
ReplEval(prog, b) ==
    IF prog.st = "panic"
    THEN [pc |-> "aborted", flow |-> "Panic", out |-> <<>>, program |-> NoProgram]
    ELSE ReplPrint(eval([kind |-> "Program", statements |-> prog.statements,
                         errors |-> prog.errors],
                        [stack |-> StackNew, heap |-> <<>>, build |-> b, log |-> <<>>]),
                   prog)

\* lines 15-24 of main
ReplParse(toks, b) ==
    IF toks.st = "panic"
    THEN [pc |-> "aborted", flow |-> "Panic", out |-> <<>>, program |-> NoProgram]
    ELSE ReplEval(parse_program(ParserNew(toks.v)), b)

InitRepl ==
    /\ pc = "loop"
    /\ stack = StackNew
    /\ heap = <<>>
    /\ build \in {"debug", "release"}
    /\ last = [flow |-> "None", log |-> <<>>]
    /\ nevals = 0
    /\ env = <<>>
    /\ input = <<>>
    /\ program = NoProgram
    /\ lexer = NoLexer
    /\ tokens = <<>>

\* one turn of the loop of main: prompt, read_line, lex, parse, eval, print
main ==
    /\ pc = "loop"
    /\ nevals < MaxLines
    /\ \E line \in Lines :
          \E r \in {ReplParse(LexAll(LexerNew(line), <<>>), build)} :
              /\ input' = line
              /\ pc' = r.pc
              /\ program' = r.program
              /\ last' = [flow |-> r.flow, log |-> last.log \o r.out]
    /\ nevals' = nevals + 1
    /\ UNCHANGED <<stack, heap, build, env, lexer, tokens>>

NextRepl == main

SpecRepl == InitRepl /\ [][NextRepl]_vars

\* the line just read made an error: the lexer, the parser or the evaluator
\* failed on it
LineFailed ==
    /\ last.flow # "None"
    /\ \/ last.flow \in {"Err", "Panic"}
       \/ (program.st = "ok" /\ program.errors # <<>>)

\* C11: after a line that produces an error the error is printed and the loop
\* goes on to read the next line; the REPL ends only through exit or yeet.
C11_ErrorsDoNotEndRepl ==
    /\ pc \in {"loop", "exited"}
    /\ pc = "exited" => last.flow = "Exit"
    /\ LineFailed => (last.log # <<>> /\ Last(last.log).kind = "error")


(***************************************************************************)
(* The lexer run on one input: Lexer::new(input), then next_token again and  *)
(* again.  tokens records every call that returned: the token, the position  *)
(* before the call (start), the position, current and next character at the  *)
(* first character of the token (from, c, next) and the position after (to). *)
(***************************************************************************)
LexAlphabet == {"=", "!", "-", "<", ">", "+", "&", "|", "a", "5", " ", "\""}

BangLine == <<"!", "-", "/", "*", "5", ";">>

MinusEqualLine == <<"a", " ", "-", "=", " ", "\"", "2", "\"">>

LexInputs ==
    UNION {[1..n -> LexAlphabet] : n \in 0..MaxChars}
        \cup {BangLine, MinusEqualLine,
              <<"2", "1", "4", "7", "4", "8", "3", "6", "4", "7">>,
              <<"2", "1", "4", "7", "4", "8", "3", "6", "4", "8">>,
              <<"x", "=", "9", "9", "9", "9", "9", "9", "9", "9", "9", "9", ";">>}

InitLex ==
    /\ input \in LexInputs
    /\ lexer = LexerNew(input)
    /\ tokens = <<>>
    /\ pc = "run"
    /\ nevals = 0
    /\ stack = StackNew
    /\ heap = <<>>
    /\ build = "debug"
    /\ last = NoResult
    /\ env = <<>>
    /\ program = NoProgram

\* the input is exhausted: no character is left to read
Exhausted(l) == l.position >= Len(l.input)

Called(r, l, s) ==
    [tok |-> r.tok, start |-> l.position, from |-> s.position, c |-> s.c,
     next |-> peek_next(s), to |-> r.l.position, exhausted |-> Exhausted(l)]

\* one call of Lexer::next_token
NextToken ==
    /\ pc = "run"
    /\ Exhausted(lexer) => nevals < MaxCalls
    /\ \E r \in {Lexer_next_token(lexer)} :
          IF r.st = "panic"
          THEN pc' = "aborted" /\ UNCHANGED <<lexer, tokens, nevals>>
          ELSE /\ lexer' = r.l
               /\ tokens' = Append(tokens, Called(r, lexer, skip_whitespace(lexer)))
               /\ nevals' = IF Exhausted(lexer) THEN nevals + 1 ELSE nevals
               /\ pc' = pc
    /\ UNCHANGED <<stack, heap, build, last, env, input, program>>

NextLex == NextToken

SpecLex == InitLex /\ [][NextLex]_vars

\* C19: each call of next_token made before the input is exhausted returns
\* and consumes at least one character, so EOF is reached after at most as many
\* calls as the input has characters; once the input is exhausted every
\* further call returns EOF and no other token.
C19_LexerReachesEOF ==
    /\ pc # "aborted"
    /\ \A i \in 1..Len(tokens) :
          IF tokens[i].exhausted THEN tokens[i].tok = EOF
          ELSE tokens[i].to > tokens[i].start
    /\ Cardinality({i \in 1..Len(tokens) : ~tokens[i].exhausted}) <= Len(input)

\* the two-character operators, as the characters that spell them
Spelled ==
    {<<"=", "=", "Equal">>, <<"!", "=", "NotEqual">>, <<">", "=", "GreaterOrEqual">>,
     <<"<", "=", "LessOrEqual">>, <<"+", "=", "PlusEqual">>, <<"-", "=", "MinusEqual">>,
     <<"&", "&", "And">>, <<"|", "|", "Or">>, <<"-", ">", "RightArrow">>,
     <<"<", "-", "LeftArrow">>}

\* the one-character operators
SpelledSingle ==
    {<<"=", "Assign">>, <<"!", "Bang">>, <<">", "Greater">>, <<"<", "Less">>, <<"+", "Plus">>,
     <<"-", "Minus">>, <<"&", "Ampersand">>, <<"|", "Pipe">>}

\* the tokens returned before the input was exhausted
TokensOf(calls) ==
    [i \in 1..Len(SelectSeq(calls, LAMBDA t : ~t.exhausted)) |->
        SelectSeq(calls, LAMBDA t : ~t.exhausted)[i].tok]

\* C20: operator lexing is greedy: when the current and the next character
\* spell a two-character operator the lexer emits that token and consumes both
\* characters, and otherwise it emits the one-character token and consumes one;
\* !-/*5; lexes as Bang, Minus, Divide, Multiply, Int(5), Semicolon and
\* a -= "2" as Ident, MinusEqual, Str.
C20_GreedyOperators ==
    /\ \A i \in 1..Len(tokens) :
          \A single \in SpelledSingle :
              tokens[i].c = single[1] =>
                  IF \E double \in Spelled : double[1] = tokens[i].c /\ double[2] = tokens[i].next
                  THEN /\ \E double \in Spelled :
                             /\ double[1] = tokens[i].c
                             /\ double[2] = tokens[i].next
                             /\ tokens[i].tok = TOperator(double[3])
                       /\ tokens[i].to = tokens[i].from + 2
                  ELSE /\ tokens[i].tok = TOperator(single[2])
                       /\ tokens[i].to = tokens[i].from + 1
    /\ (input = BangLine /\ Exhausted(lexer)) =>
          TokensOf(tokens) = <<TOperator("Bang"), TOperator("Minus"), TOperator("Divide"),
                               TOperator("Multiply"), TInt(5), TPunct("Semicolon")>>
    /\ (input = MinusEqualLine /\ Exhausted(lexer)) =>
          TokensOf(tokens) = <<TIdent("a"), TOperator("MinusEqual"), TStr("2")>>

\* a -= "2" has been lexed to its end, the two characters of -= taken as one token
C20_Witness ==
    /\ input = MinusEqualLine
    /\ Exhausted(lexer)
    /\ \E i \in 1..Len(tokens) :
          tokens[i].tok = TOperator("MinusEqual") /\ tokens[i].to = tokens[i].from + 2

RECURSIVE RunValue(_, _, _)
\* the number written by the digits text[from+1..to]
RunValue(text, from, to) ==
    IF to <= from THEN 0 ELSE RunValue(text, from, to - 1) * 10 + DigitValue[text[to]]

IsDigit(c) == c \in {"0", "1", "2", "3", "4", "5", "6", "7", "8", "9"}

\* C26: for every maximal run of digits the lexer yields one Int token holding
\* the run's value as an i32, and next_token returns normally on every input: a
\* run whose value is above 2147483647 does not crash the lexer.
C26_IntegerTokens ==
    /\ pc # "aborted"
    /\ \A i \in 1..Len(tokens) :
          IsDigit(tokens[i].c) =>
              /\ \A j \in (tokens[i].from + 1)..tokens[i].to : IsDigit(input[j])
              /\ tokens[i].to < Len(input) => ~IsDigit(input[tokens[i].to + 1])
              /\ tokens[i].tok = TInt(RunValue(input, tokens[i].from, tokens[i].to))

\* 5;; as the lexer gives it to the parser
FiveEmpty == <<TInt(5), SEMI, SEMI>>

\* the Program the parser made of the tokens, as a node
ParsedNode(toks) ==
    [kind |-> "Program", statements |-> Parse(toks).statements, errors |-> Parse(toks).errors]

\* C30: eval handles every statement form the parser can produce: evaluating
\* Statement::Empty (the second semicolon of 5;;) completes with a Flow value,
\* raises no error, does not abort and leaves the environment unchanged.
C30_EmptyStatementEvaluates ==
    /\ Parse(FiveEmpty).st = "ok"
    /\ Parse(FiveEmpty).statements = <<ExprStmt(IntLit(5)), Empty>>
    /\ last.flow \notin {"Panic", "Exit"} =>
          /\ eval(Empty, Running).flow \in {"Continue", "Break"}
          /\ eval(Empty, Running).m.stack = stack
          /\ eval(Empty, Running).m.heap = heap
          /\ eval(ParsedNode(FiveEmpty), Running).flow \in {"Continue", "Break"}

\* C5: get(name) returns a value exactly when name was bound by add or assign
\* in a scope of the current frame that is still open, and that value is the
\* most recent binding of the innermost such scope.
C5_EnvironmentInvariant == \A ident \in Names : get(stack, ident) = EnvGet(env, ident)

====
